---- MODULE Spec2Model ----
(***************************************************************************)
(* A model of the object store of codecrafters-git-rust: the object        *)
(* encoder (hash_object), the locator (find_object_file), the decoder      *)
(* (read_and_decode_object_file, drain_into_writer_raw), the tree reader   *)
(* (TreeObjectIterator) and the tree-entry comparator (entry_sort).        *)
(*                                                                         *)
(* Bytes are the integers 0..255.  A byte stream is a sequence whose       *)
(* elements are bytes; a negative element -n stands for a run of n equal   *)
(* filler bytes (a byte that is no delimiter and no digit), so that a body *)
(* longer than MAX_OBJECT_SIZE has a finite representation.  A stream is   *)
(* kept normal: no two runs are adjacent.                                  *)
(***************************************************************************)
EXTENDS Integers, Sequences, FiniteSets, TLC

(***************************************************************************)
(* Program constants.                                                      *)
(***************************************************************************)
MAX_OBJECT_SIZE == 1073741824
HASH_ENCODED_LEN == 40
HASH_RAW_LEN == 20
OBJECT_DIR_LEN == 2
MIN_OBJECT_SEARCH_LEN == 4
OBJECTS_PATH == ".git/objects"
SP == 32
NUL == 0
TYPE_FIELD_MAX == 10
SIZE_FIELD_MAX == 20
MODE_FIELD_MAX == 10
SHA_BUF_LEN == 20

(***************************************************************************)
(* Bounds of the model.                                                    *)
(***************************************************************************)
MaxBody == 1
MaxCalls == 2

(***************************************************************************)
(* Byte streams.                                                           *)
(***************************************************************************)
W(e) == IF e < 0 THEN -e ELSE 1

\* The element of a one-element set: The({e(x) : x \in {d}}) is e(d) with d
\* evaluated once.
The(S) == CHOOSE x \in S : TRUE

\* The operators on streams split a long stream in halves.
RECURSIVE SLen(_)
SLen(s) ==
    CASE Len(s) = 0 -> 0
      [] Len(s) = 1 -> W(s[1])
      [] OTHER -> SLen(SubSeq(s, 1, Len(s) \div 2)) + SLen(SubSeq(s, Len(s) \div 2 + 1, Len(s)))

RECURSIVE STake(_, _)
STake(s, k) ==
    CASE k = 0 \/ Len(s) = 0 -> <<>>
      [] Len(s) = 1 -> IF W(s[1]) <= k THEN s ELSE <<-k>>
      [] OTHER ->
            The({ IF k <= la THEN STake(SubSeq(s, 1, Len(s) \div 2), k)
                  ELSE SubSeq(s, 1, Len(s) \div 2)
                          \o STake(SubSeq(s, Len(s) \div 2 + 1, Len(s)), k - la)
                : la \in {SLen(SubSeq(s, 1, Len(s) \div 2))} })

RECURSIVE SDrop(_, _)
SDrop(s, k) ==
    CASE k = 0 \/ Len(s) = 0 -> s
      [] Len(s) = 1 -> IF W(s[1]) <= k THEN <<>> ELSE <<s[1] + k>>
      [] OTHER ->
            The({ IF k >= la THEN SDrop(SubSeq(s, Len(s) \div 2 + 1, Len(s)), k - la)
                  ELSE SDrop(SubSeq(s, 1, Len(s) \div 2), k)
                          \o SubSeq(s, Len(s) \div 2 + 1, Len(s))
                : la \in {SLen(SubSeq(s, 1, Len(s) \div 2))} })

SCat(a, b) ==
    IF a # <<>> /\ b # <<>> /\ a[Len(a)] < 0 /\ Head(b) < 0
    THEN SubSeq(a, 1, Len(a) - 1) \o <<a[Len(a)] + Head(b)>> \o Tail(b)
    ELSE a \o b

(***************************************************************************)
(* ObjectType and its two conversions.                                     *)
(***************************************************************************)
ObjectType == {"Blob", "Tree", "Commit", "Tag"}

BLOB_STR == <<98, 108, 111, 98>>
TREE_STR == <<116, 114, 101, 101>>
COMMIT_STR == <<99, 111, 109, 109, 105, 116>>
TAG_STR == <<116, 97, 103>>

to_str(t) ==
    CASE t = "Blob" -> BLOB_STR
      [] t = "Tree" -> TREE_STR
      [] t = "Commit" -> COMMIT_STR
      [] t = "Tag" -> BLOB_STR

\* Option<ObjectType>: "None" when the token is no type word.
from_raw_str(value) ==
    CASE value = BLOB_STR -> "Blob"
      [] value = TREE_STR -> "Tree"
      [] value = COMMIT_STR -> "Commit"
      [] value = TAG_STR -> "Tag"
      [] OTHER -> "None"

(***************************************************************************)
(* Decimal formatting ({size} in format!) and parsing (str::parse::<u64>). *)
(***************************************************************************)
RECURSIVE Decimal(_)
Decimal(n) == IF n < 10 THEN <<48 + n>> ELSE Decimal(n \div 10) \o <<48 + (n % 10)>>

IsDigit(b) == b >= 48 /\ b <= 57

\* The digits of a token, most significant first; the value saturates just
\* above MAX_OBJECT_SIZE (every larger value is refused by the caller).
RECURSIVE DigitsValue(_, _)
DigitsValue(acc, s) ==
    IF s = <<>> THEN acc
    ELSE IF acc > (MAX_OBJECT_SIZE - (Head(s) - 48)) \div 10
         THEN MAX_OBJECT_SIZE + 1
    ELSE DigitsValue(acc * 10 + (Head(s) - 48), Tail(s))

\* parse::<u64>: an optional '+' then at least one digit; -1 is Err.
ParseU64(s) ==
    LET t == IF s # <<>> /\ Head(s) = 43 THEN Tail(s) ELSE s
    IN  IF t = <<>> \/ \E i \in 1..Len(t) : ~IsDigit(t[i]) THEN -1
        ELSE DigitsValue(0, t)

Header(object_type, size) ==
    to_str(object_type) \o <<SP>> \o Decimal(size) \o <<NUL>>

(***************************************************************************)
(* SHA-1 followed by hex::encode, modelled by a small digest: a fold over  *)
(* the stream into 20 bits, written as HASH_ENCODED_LEN hex digits (each a *)
(* number 0..15).  The first 20 digits are the bits of the digest, so two  *)
(* streams have the same name exactly when their digests are equal, and    *)
(* names share prefixes of every length, as the names of many objects do.  *)
(***************************************************************************)
Mix(acc, e) ==
    (acc * 31 + (IF e < 0 THEN 300 + ((-e) % 8191) ELSE e + 1)) % 1048576

\* The fold of Mix over the stream, from the left; a long stream is folded
\* half after half.
RECURSIVE DigestFrom(_, _)
DigestFrom(acc, s) ==
    CASE Len(s) = 0 -> acc
      [] Len(s) = 1 -> Mix(acc, s[1])
      [] OTHER -> The({ DigestFrom(a, SubSeq(s, Len(s) \div 2 + 1, Len(s)))
                      : a \in {DigestFrom(acc, SubSeq(s, 1, Len(s) \div 2))} })

Sha1Hex(s) ==
    CHOOSE hex \in { [i \in 1..HASH_ENCODED_LEN |->
                        IF i <= 20 THEN (d \div (2 ^ (i - 1))) % 2 ELSE (d + i) % 16]
                    : d \in {DigestFrom(7, s)} } : TRUE

(***************************************************************************)
(* Readers.  A reader is [data, tail]: the bytes still to be read and what *)
(* a read past them returns, "eof" (Ok(0)) or "err" (an io::Error).        *)
(***************************************************************************)
Reader(data, tail) == [data |-> data, tail |-> tail]

\* The buffer filled by take(limit).read_until(delim): up to and including
\* the first delim, at most limit bytes.
RECURSIVE ReadUntilBuf(_, _, _)
ReadUntilBuf(s, delim, limit) ==
    IF limit = 0 \/ s = <<>> THEN <<>>
    ELSE IF Head(s) < 0
         THEN IF -Head(s) >= limit THEN <<-limit>>
              ELSE SCat(<<Head(s)>>, ReadUntilBuf(Tail(s), delim, limit + Head(s)))
    ELSE IF Head(s) = delim THEN <<delim>>
    ELSE <<Head(s)>> \o ReadUntilBuf(Tail(s), delim, limit - 1)

\* read_until on reader.take(limit): [err, buf, reader].  It fails when the
\* data ends before the delimiter and the limit, and the next read is an error.
read_until(reader, delim, limit) ==
    LET buf == ReadUntilBuf(reader.data, delim, limit)
        n == SLen(buf)
        found == buf # <<>> /\ buf[Len(buf)] = delim
        atEnd == ~found /\ n < limit
    IN  [err |-> atEnd /\ reader.tail = "err",
         buf |-> buf,
         reader |-> Reader(SDrop(reader.data, n), reader.tail)]

is_end_of_reader(reader) ==
    CASE reader.data # <<>> -> FALSE
      [] reader.tail = "eof" -> TRUE
      [] reader.tail = "err" -> TRUE

(***************************************************************************)
(* The decoder: header parsing and the raw drain.  A result carries err,   *)
(* the message of the failure, "" on success.                              *)
(***************************************************************************)
read_object_type(reader) ==
    The({ CASE r.err -> [err |-> "Failed to extract type", object_type |-> "None", reader |-> r.reader]
            [] r.buf = <<>> -> [err |-> "Failed to read object type, no data was read", object_type |-> "None", reader |-> r.reader]
            [] r.buf[Len(r.buf)] # SP -> [err |-> "Failed to read object type, delimiter not found", object_type |-> "None", reader |-> r.reader]
            [] from_raw_str(SubSeq(r.buf, 1, Len(r.buf) - 1)) = "None" -> [err |-> "Failed to extract type, invalid type", object_type |-> "None", reader |-> r.reader]
            [] OTHER -> [err |-> "", object_type |-> from_raw_str(SubSeq(r.buf, 1, Len(r.buf) - 1)), reader |-> r.reader]
          : r \in {read_until(reader, SP, TYPE_FIELD_MAX)} })

\* Mutant of read_object_size: a size equal to MAX_OBJECT_SIZE is refused too.
read_object_size_Strict(reader) ==
    The({ CASE r.err -> [err |-> "Failed to extract size", size |-> 0, reader |-> r.reader]
            [] r.buf = <<>> -> [err |-> "Failed to read object size, no data was read", size |-> 0, reader |-> r.reader]
            [] r.buf[Len(r.buf)] # NUL -> [err |-> "Failed to read object size, delimiter not found", size |-> 0, reader |-> r.reader]
            [] ParseU64(SubSeq(r.buf, 1, Len(r.buf) - 1)) < 0 -> [err |-> "Failed to extract size: failed to convert to int", size |-> 0, reader |-> r.reader]
            [] ParseU64(SubSeq(r.buf, 1, Len(r.buf) - 1)) >= MAX_OBJECT_SIZE -> [err |-> "Object size is larger than max allowed size", size |-> 0, reader |-> r.reader]
            [] OTHER -> [err |-> "", size |-> ParseU64(SubSeq(r.buf, 1, Len(r.buf) - 1)), reader |-> r.reader]
          : r \in {read_until(reader, NUL, SIZE_FIELD_MAX)} })

read_object_size(reader) ==
    The({ CASE r.err -> [err |-> "Failed to extract size", size |-> 0, reader |-> r.reader]
            [] r.buf = <<>> -> [err |-> "Failed to read object size, no data was read", size |-> 0, reader |-> r.reader]
            [] r.buf[Len(r.buf)] # NUL -> [err |-> "Failed to read object size, delimiter not found", size |-> 0, reader |-> r.reader]
            [] ParseU64(SubSeq(r.buf, 1, Len(r.buf) - 1)) < 0 -> [err |-> "Failed to extract size: failed to convert to int", size |-> 0, reader |-> r.reader]
            [] ParseU64(SubSeq(r.buf, 1, Len(r.buf) - 1)) > MAX_OBJECT_SIZE -> [err |-> "Object size is larger than max allowed size", size |-> 0, reader |-> r.reader]
            [] OTHER -> [err |-> "", size |-> ParseU64(SubSeq(r.buf, 1, Len(r.buf) - 1)), reader |-> r.reader]
          : r \in {read_until(reader, NUL, SIZE_FIELD_MAX)} })

\* LazyDecodedObject, or the failure, for the file content opened at file_path.
read_and_decode_object_file(file_path, content) ==
    The({ IF t.err # ""
          THEN [err |-> t.err, file_path |-> file_path, object_type |-> "None", size |-> 0, reader |-> t.reader]
          ELSE The({ IF z.err # ""
                     THEN [err |-> z.err, file_path |-> file_path, object_type |-> "None", size |-> 0, reader |-> z.reader]
                     ELSE [err |-> "", file_path |-> file_path, object_type |-> t.object_type, size |-> z.size, reader |-> z.reader]
                   : z \in {read_object_size(t.reader)} })
        : t \in {read_object_type(Reader(content.data, content.tail))} })

\* drain_into_writer_raw: [err, written, object_type, size, probe]; written is
\* what the writer received, probe what the read that looked for the end of the
\* stream returned ("none" when it was not made, else "eof", "err" or "byte").
drain_into_writer_raw(object) ==
    The({ LET copied_size == SLen(copied)
              rest == Reader(SDrop(object.reader.data, copied_size), object.reader.tail)
              probe == IF rest.data # <<>> THEN "byte" ELSE rest.tail
          IN  CASE copied_size < object.size /\ object.reader.tail = "err" ->
                      [err |-> "Failed to copy contents to writer", written |-> copied,
                       object_type |-> object.object_type, size |-> object.size, probe |-> "none"]
                [] copied_size # object.size ->
                      [err |-> "unexpected content size", written |-> copied,
                       object_type |-> object.object_type, size |-> object.size, probe |-> "none"]
                [] ~is_end_of_reader(rest) ->
                      [err |-> "content size is larger than expected", written |-> copied,
                       object_type |-> object.object_type, size |-> object.size, probe |-> probe]
                [] OTHER ->
                      [err |-> "", written |-> copied,
                       object_type |-> object.object_type, size |-> object.size, probe |-> probe]
        : copied \in {STake(object.reader.data, object.size)} })

(***************************************************************************)
(* State.                                                                  *)
(*   dirs, files  the prefix directories under OBJECTS_PATH and the files  *)
(*                in them: files maps a path to [data, tail], what the     *)
(*                decompressing reader of the file yields;                 *)
(*   temp         the file at TEMPORARY_FILE: [exists, data, finished],    *)
(*                finished once the ZlibEncoder wrote its trailer;         *)
(*   pc, call, prog, ret   the hash_object call in progress: its position, *)
(*                its arguments, its locals and what it returned;          *)
(*   files0, dirs0   files and dirs when the call started;                 *)
(*   memo         the first call that returned a hash, and the object file *)
(*                it left; calls counts the calls started;                 *)
(*   cat          what find_and_decode_object and the raw drain returned;  *)
(*   query, found an identifier looked up and find_object_file's result;   *)
(*   obj, drained a LazyDecodedObject and its raw drain's result;          *)
(*   tree, yielded   a TreeObjectIterator and what next() returned so far; *)
(*   listing, sorted a directory's entries as read and as sorted;          *)
(*   wt           the working tree hash_tree walks, a table of its nodes;  *)
(*   stack        the hash_tree calls in progress, the innermost last;     *)
(*   tcall, tret  the outermost hash_tree call and what it returned;       *)
(*   tmemo        the outermost call before it and what that returned;     *)
(*   commit       a hash_commit call and what it returned.                 *)
(***************************************************************************)
VARIABLES dirs, files, temp, pc, call, prog, ret, files0, dirs0, memo, calls,
          cat, query, found, obj, drained, tree, yielded, listing, sorted,
          wt, stack, tcall, tret, tmemo, commit

storeVars == <<dirs, files, temp, pc, call, prog, ret, files0, dirs0, memo, calls, cat>>
findVars == <<query, found>>
readVars == <<obj, drained>>
treeVars == <<tree, yielded>>
sortVars == <<listing, sorted>>
writeVars == <<wt, stack, tcall, tret, tmemo>>
commitVars == <<commit>>
notStore == <<findVars, readVars, treeVars, sortVars, writeVars, commitVars>>
vars == <<storeVars, findVars, readVars, treeVars, sortVars, writeVars, commitVars>>

(***************************************************************************)
(* Paths.                                                                  *)
(***************************************************************************)
split_at(s, mid) == <<SubSeq(s, 1, mid), SubSeq(s, mid + 1, Len(s))>>

\* Mutant of get_object_path_by_hash: the file is named by the directory part
\* of the hash alone.
get_object_path_by_hash_DirOnly(hash) ==
    <<OBJECTS_PATH, "/", split_at(hash, OBJECT_DIR_LEN)[1], "/", split_at(hash, OBJECT_DIR_LEN)[1]>>

get_object_path_by_hash(hash) ==
    LET parts == split_at(hash, OBJECT_DIR_LEN)
    IN  <<OBJECTS_PATH, "/", parts[1], "/", parts[2]>>

PathDir(path) == path[3]
PathName(path) == path[5]

(***************************************************************************)
(* The encoder: hash_object, hash_write and move_temporary_file, a step    *)
(* at a time.                                                              *)
(***************************************************************************)
NoTemp == [exists |-> FALSE, data |-> <<>>, finished |-> FALSE]
NoCall == [object_type |-> "Blob", size |-> 0, body |-> <<>>, write_file |-> FALSE]
NoProg == [reader |-> <<>>, hasher |-> <<>>, copied_size |-> 0, hash |-> <<>>]
NoRet == [kind |-> "none", hash |-> <<>>, err |-> ""]
NoMemo == [set |-> FALSE, call |-> NoCall, hash |-> <<>>, file |-> <<>>]
NoCat == [done |-> FALSE, err |-> "", file_path |-> <<>>, object_type |-> "None",
          size |-> 0, written |-> <<>>]

\* Mutant of Writer_write: the temp file is written without write_file as well.
Writer_write_Always(write_file, t, buf) ==
    [written_size |-> SLen(buf), temp |-> [t EXCEPT !.data = SCat(@, buf)]]

\* Write::write of the wrapped writer: [written_size, temp].  io::sink takes
\* the whole buffer and so does the ZlibEncoder, which appends it to the
\* compressed temp file.
Writer_write(write_file, t, buf) ==
    IF write_file
    THEN [written_size |-> SLen(buf), temp |-> [t EXCEPT !.data = SCat(@, buf)]]
    ELSE [written_size |-> SLen(buf), temp |-> t]

\* Mutant of HashWriter_write: the hasher is fed only when a file is written.
HashWriter_write_FileOnly(write_file, hasher, t, buf) ==
    LET w == Writer_write(write_file, t, buf)
    IN  [written_size |-> w.written_size,
         hasher |-> IF write_file THEN SCat(hasher, STake(buf, w.written_size)) ELSE hasher,
         temp |-> w.temp]

\* HashWriter::write: the wrapped writer writes, the hasher is fed what was
\* written: [written_size, hasher, temp].
HashWriter_write(write_file, hasher, t, buf) ==
    LET w == Writer_write(write_file, t, buf)
    IN  [written_size |-> w.written_size,
         hasher |-> SCat(hasher, STake(buf, w.written_size)),
         temp |-> w.temp]

\* hash_object entered; with write_file, get_temporary_file_writer creates or
\* truncates the temp file.
Call(object_type, size, body, write_file) ==
    /\ pc = "idle"
    /\ calls < MaxCalls
    /\ calls' = calls + 1
    /\ call' = [object_type |-> object_type, size |-> size, body |-> body,
                write_file |-> write_file]
    /\ prog' = [NoProg EXCEPT !.reader = body]
    /\ temp' = IF write_file THEN [exists |-> TRUE, data |-> <<>>, finished |-> FALSE]
               ELSE temp
    /\ files0' = files
    /\ dirs0' = dirs
    /\ ret' = NoRet
    /\ pc' = "header"
    /\ UNCHANGED <<dirs, files, memo, cat, notStore>>

\* hash_write: writer.write(header).
WriteHeader ==
    /\ pc = "header"
    /\ LET w == HashWriter_write(call.write_file, prog.hasher, temp,
                                 Header(call.object_type, call.size))
       IN  /\ prog' = [prog EXCEPT !.hasher = w.hasher]
           /\ temp' = w.temp
    /\ pc' = "copy"
    /\ UNCHANGED <<dirs, files, call, ret, files0, dirs0, memo, calls, cat, notStore>>

\* io::copy: one chunk read from the body source and written.
CopyChunk ==
    /\ pc = "copy"
    /\ prog.reader # <<>>
    /\ LET chunk == <<Head(prog.reader)>>
           w == HashWriter_write(call.write_file, prog.hasher, temp, chunk)
       IN  /\ prog' = [prog EXCEPT !.reader = Tail(@),
                                   !.hasher = w.hasher,
                                   !.copied_size = @ + w.written_size]
           /\ temp' = w.temp
    /\ pc' = "copy"
    /\ UNCHANGED <<dirs, files, call, ret, files0, dirs0, memo, calls, cat, notStore>>

\* Mutants of SizeMismatch: the check dropped; only a short body refused.
SizeMismatch_Never(copied_size, size) == FALSE
SizeMismatch_OnlyShort(copied_size, size) == copied_size < size

\* hash_write's check of what io::copy copied against the declared size.
SizeMismatch(copied_size, size) == copied_size # size

\* The hash hash_write returns: the hasher finalized, hex-encoded.
Finalize(hasher) == Sha1Hex(hasher)

\* hash_write after the copy: flush, the size check, the hash; the writer is
\* dropped on either way out, which finishes the ZlibEncoder.
CopyEnd ==
    /\ pc = "copy"
    /\ prog.reader = <<>>
    /\ temp' = IF call.write_file THEN [temp EXCEPT !.finished = TRUE] ELSE temp
    /\ IF SizeMismatch(prog.copied_size, call.size)
       THEN /\ ret' = [kind |-> "err", hash |-> <<>>, err |-> "invalid data size"]
            /\ pc' = "done"
            /\ prog' = prog
       ELSE /\ prog' = [prog EXCEPT !.hash = Finalize(prog.hasher)]
            /\ IF call.write_file
               THEN pc' = "move" /\ ret' = ret
               ELSE pc' = "done" /\ ret' = [kind |-> "ok", hash |-> Finalize(prog.hasher), err |-> ""]
    /\ UNCHANGED <<dirs, files, call, files0, dirs0, memo, calls, cat, notStore>>

\* move_temporary_file: the prefix directory is created when it is missing.
MoveCreateDir ==
    /\ pc = "move"
    /\ PathDir(get_object_path_by_hash(prog.hash)) \notin dirs
    /\ dirs' = dirs \cup {PathDir(get_object_path_by_hash(prog.hash))}
    /\ pc' = "rename"
    /\ UNCHANGED <<files, temp, call, prog, ret, files0, dirs0, memo, calls, cat, notStore>>

\* The file a rename of the temp file leaves at its new path.
Renamed(t) == [data |-> t.data, tail |-> "eof"]

\* Mutant of MoveRename: an object file that exists is appended to, not replaced.
MoveRename_Append ==
    /\ \/ pc = "rename"
       \/ pc = "move" /\ PathDir(get_object_path_by_hash(prog.hash)) \in dirs
    /\ files' = (get_object_path_by_hash(prog.hash) :>
                    IF get_object_path_by_hash(prog.hash) \in DOMAIN files
                    THEN [data |-> SCat(files[get_object_path_by_hash(prog.hash)].data, temp.data),
                          tail |-> "eof"]
                    ELSE Renamed(temp)) @@ files
    /\ temp' = NoTemp
    /\ ret' = [kind |-> "ok", hash |-> prog.hash, err |-> ""]
    /\ pc' = "done"
    /\ UNCHANGED <<dirs, call, prog, files0, dirs0, memo, calls, cat, notStore>>

\* move_temporary_file: fs::rename(TEMPORARY_FILE, path), and hash_object returns.
MoveRename ==
    /\ \/ pc = "rename"
       \/ pc = "move" /\ PathDir(get_object_path_by_hash(prog.hash)) \in dirs
    /\ files' = (get_object_path_by_hash(prog.hash) :> Renamed(temp)) @@ files
    /\ temp' = NoTemp
    /\ ret' = [kind |-> "ok", hash |-> prog.hash, err |-> ""]
    /\ pc' = "done"
    /\ UNCHANGED <<dirs, call, prog, files0, dirs0, memo, calls, cat, notStore>>

\* The caller has the result; the first hash returned is remembered.
Return ==
    /\ pc = "done"
    /\ pc' = "idle"
    /\ memo' = IF ~memo.set /\ ret.kind = "ok"
               THEN [set |-> TRUE, call |-> call, hash |-> ret.hash,
                     file |-> IF call.write_file
                              THEN <<files[get_object_path_by_hash(ret.hash)]>>
                              ELSE <<>>]
               ELSE memo
    /\ call' = NoCall
    /\ prog' = NoProg
    /\ ret' = NoRet
    /\ files0' = files
    /\ dirs0' = dirs
    /\ UNCHANGED <<dirs, files, temp, calls, cat, notStore>>

\* The process dies inside hash_object: what is on disk stays as it is.
Crash ==
    /\ pc \in {"header", "copy", "move", "rename"}
    /\ pc' = "idle"
    /\ call' = NoCall
    /\ prog' = NoProg
    /\ ret' = NoRet
    /\ files0' = files
    /\ dirs0' = dirs
    /\ UNCHANGED <<dirs, files, temp, memo, calls, cat, notStore>>

(***************************************************************************)
(* The locator.                                                            *)
(***************************************************************************)
\* Mutant of starts_with: only a whole file name matches.
starts_with_Whole(name, prefix) == name = prefix

\* str::starts_with.
starts_with(name, prefix) ==
    Len(prefix) <= Len(name) /\ SubSeq(name, 1, Len(prefix)) = prefix

\* The orders of a finite set: the sequences that list each element once.
Orders(S) == {o \in [1..Cardinality(S) -> S] : \A i, j \in 1..Cardinality(S) : o[i] = o[j] => i = j}

\* The names of the files of a prefix directory.
NamesIn(dir) == {PathName(p) : p \in {q \in DOMAIN files : PathDir(q) = dir}}

\* fs::read_dir on the prefix directory of an identifier: the orders in which
\* it may yield the file names (one empty listing when it is not reached or fails).
ReadDirOrders(object) ==
    IF Len(object) < OBJECT_DIR_LEN \/ split_at(object, OBJECT_DIR_LEN)[1] \notin dirs
    THEN {<<>>}
    ELSE Orders(NamesIn(split_at(object, OBJECT_DIR_LEN)[1]))

\* The loop over the directory entries; found_name is <<>> (None) or <<name>>.
RECURSIVE ScanDir(_, _, _)
ScanDir(entries, file_search, found_name) ==
    IF entries = <<>> THEN [err |-> "", found_name |-> found_name]
    ELSE IF starts_with(Head(entries), file_search)
         THEN IF found_name = <<>>
              THEN ScanDir(Tail(entries), file_search, <<Head(entries)>>)
              ELSE [err |-> "Found multiple objects starting with", found_name |-> <<>>]
    ELSE ScanDir(Tail(entries), file_search, found_name)

\* find_object_file, with the order in which read_dir yields the entries:
\* [err, file_path].
find_object_file(object, entries) ==
    LET len == Len(object)
        dir == split_at(object, OBJECT_DIR_LEN)[1]
        file_search == split_at(object, OBJECT_DIR_LEN)[2]
        dir_path == <<OBJECTS_PATH, "/", dir, "/">>
        scan == ScanDir(entries, file_search, <<>>)
    IN  CASE len < MIN_OBJECT_SEARCH_LEN \/ len > HASH_ENCODED_LEN ->
                [err |-> "Invalid object name", file_path |-> <<>>]
          [] dir \notin dirs ->
                [err |-> "Failed to read dir", file_path |-> <<>>]
          [] scan.err # "" ->
                [err |-> scan.err, file_path |-> <<>>]
          [] scan.found_name = <<>> ->
                [err |-> "Found multiple objects starting with", file_path |-> <<>>]
          [] OTHER ->
                [err |-> "", file_path |-> dir_path \o scan.found_name]

\* find_and_decode_object followed by drain_into_writer_raw.
CatResult(object, entries) ==
    The({ IF f.err # "" THEN [NoCat EXCEPT !.done = TRUE, !.err = f.err]
          ELSE The({ IF o.err # ""
                     THEN [NoCat EXCEPT !.done = TRUE, !.err = o.err, !.file_path = f.file_path]
                     ELSE The({ [done |-> TRUE, err |-> d.err, file_path |-> f.file_path,
                                 object_type |-> d.object_type, size |-> d.size,
                                 written |-> d.written]
                              : d \in {drain_into_writer_raw(o)} })
                   : o \in {read_and_decode_object_file(f.file_path, files[f.file_path])} })
        : f \in {find_object_file(object, entries)} })

\* The object a call returned is read back.
CatFile ==
    /\ pc = "done"
    /\ ret.kind = "ok"
    /\ \E entries \in ReadDirOrders(ret.hash) : cat' = CatResult(ret.hash, entries)
    /\ pc' = "read"
    /\ UNCHANGED <<dirs, files, temp, call, prog, ret, files0, dirs0, memo, calls, notStore>>

(***************************************************************************)
(* The tree reader.  A TreeObjectIterator is [some, file_path, size,       *)
(* reader, entry_no, bytes_read]; reader is <<>> (None) or <<r>> (Some).   *)
(* What next() returns is [kind, mode, file_name, hash, err] with kind     *)
(* "item" (Some(Ok)), "err" (Some(Err)), "end" (None) or "panic" (the      *)
(* assertion of parse_inner failed).                                       *)
(***************************************************************************)
NoTree == [some |-> FALSE, file_path |-> <<>>, size |-> 0, reader |-> <<>>,
           entry_no |-> 0, bytes_read |-> 0]

\* ObjectMode's discriminants, which TryFrom<usize> accepts.
ObjectModes == {100644, 100755, 120000, 40000}

ResEnd == [kind |-> "end", mode |-> 0, file_name |-> <<>>, hash |-> <<>>, err |-> ""]
ResErr(msg) == [kind |-> "err", mode |-> 0, file_name |-> <<>>, hash |-> <<>>, err |-> msg]
ResPanic == [kind |-> "panic", mode |-> 0, file_name |-> <<>>, hash |-> <<>>, err |-> ""]

\* Read::take(limit): the limit reached reads as the end of the stream.
Take(reader, limit) ==
    Reader(STake(reader.data, limit),
           IF SLen(reader.data) >= limit THEN "eof" ELSE reader.tail)

\* The length in bytes of the String collected from bytes mapped to chars:
\* a char below 0x80 is one byte of UTF-8, a char from 0x80 to 0xFF is two.
RECURSIVE Utf8Len(_)
Utf8Len(bytes) ==
    IF bytes = <<>> THEN 0
    ELSE (IF Head(bytes) < 128 THEN 1 ELSE 2) + Utf8Len(Tail(bytes))

\* String::as_bytes of the String collected from bytes mapped to chars: UTF-8.
RECURSIVE Utf8Bytes(_)
Utf8Bytes(chars) ==
    IF chars = <<>> THEN <<>>
    ELSE (IF Head(chars) < 128 THEN <<Head(chars)>>
          ELSE <<192 + (Head(chars) \div 64), 128 + (Head(chars) % 64)>>)
         \o Utf8Bytes(Tail(chars))

\* hex::encode: two digits for each byte.
HexEncode(buf) ==
    [i \in 1..(2 * Len(buf)) |->
        IF i % 2 = 1 THEN buf[(i + 1) \div 2] \div 16 ELSE buf[i \div 2] % 16]

\* TreeObjectIterator::from_decoded_object: NoTree stands for None.
from_decoded_object(object) ==
    IF object.object_type = "Tree"
    THEN [some |-> TRUE, file_path |-> object.file_path, size |-> object.size,
          reader |-> <<object.reader>>, entry_no |-> 0, bytes_read |-> 0]
    ELSE NoTree

\* parse_mode: [err, some, mode, reader].
parse_mode(reader) ==
    The({ CASE r.err -> [err |-> "Failed to read mode", some |-> FALSE, mode |-> <<>>, reader |-> r.reader]
            [] r.buf = <<>> -> [err |-> "", some |-> FALSE, mode |-> <<>>, reader |-> r.reader]
            [] r.buf[Len(r.buf)] # SP -> [err |-> "Failed to read mode, delimiter not found", some |-> FALSE, mode |-> <<>>, reader |-> r.reader]
            [] Len(r.buf) = 1 -> [err |-> "Failed to read mode: empty name", some |-> FALSE, mode |-> <<>>, reader |-> r.reader]
            [] OTHER -> [err |-> "", some |-> TRUE, mode |-> SubSeq(r.buf, 1, Len(r.buf) - 1), reader |-> r.reader]
          : r \in {read_until(reader, SP, MODE_FIELD_MAX)} })

\* parse_name: [err, name, reader].
parse_name(reader) ==
    The({ CASE r.err -> [err |-> "Failed to read file name", name |-> <<>>, reader |-> r.reader]
            [] r.buf = <<>> -> [err |-> "Failed to read file name: reached end", name |-> <<>>, reader |-> r.reader]
            [] r.buf[Len(r.buf)] # NUL -> [err |-> "Failed to read file name: delimiter not found", name |-> <<>>, reader |-> r.reader]
            [] Len(r.buf) = 1 -> [err |-> "Failed to read file name: empty name", name |-> <<>>, reader |-> r.reader]
            [] OTHER -> [err |-> "", name |-> SubSeq(r.buf, 1, Len(r.buf) - 1), reader |-> r.reader]
          : r \in {read_until(reader, NUL, SLen(reader.data) + 1)} })

\* parse_sha: [err, hash, reader].
parse_sha(reader) ==
    IF SLen(reader.data) < SHA_BUF_LEN
    THEN [err |-> "Failed to read hash", hash |-> <<>>, reader |-> Reader(<<>>, reader.tail)]
    ELSE [err |-> "", hash |-> HexEncode(STake(reader.data, SHA_BUF_LEN)),
          reader |-> Reader(SDrop(reader.data, SHA_BUF_LEN), reader.tail)]

\* The entry parse_inner returns once the mode was read, and the iterator after it.
parse_entry(t, sized, m) ==
    The({ CASE mode < 0 -> [res |-> ResErr("Failed to parse mode as int"), tree |-> t]
            [] mode \notin ObjectModes -> [res |-> ResErr("Unexpected mode"), tree |-> t]
            [] OTHER ->
                The({ IF n.err # "" THEN [res |-> ResErr(n.err), tree |-> t]
                      ELSE The({ IF s.err # "" THEN [res |-> ResErr(s.err), tree |-> t]
                                 ELSE [res |-> [kind |-> "item", mode |-> mode, file_name |-> n.name,
                                                hash |-> s.hash, err |-> ""],
                                       tree |-> [t EXCEPT
                                           !.reader = <<Reader(SDrop(t.reader[1].data,
                                                                     SLen(sized.data) - SLen(s.reader.data)),
                                                               t.reader[1].tail)>>,
                                           !.bytes_read = @ + Utf8Len(m.mode) + 1 + Utf8Len(n.name) + 1 + 20]]
                               : s \in {parse_sha(n.reader)} })
                    : n \in {parse_name(m.reader)} })
        : mode \in {ParseU64(m.mode)} })

\* parse_inner: [res, tree].
parse_inner(t) ==
    IF t.reader = <<>> THEN [res |-> ResEnd, tree |-> t]
    ELSE IF t.size < t.bytes_read THEN [res |-> ResPanic, tree |-> t]
    ELSE The({ The({ CASE m.err # "" -> [res |-> ResErr(m.err), tree |-> t1]
                       [] ~m.some ->
                            [res |-> IF is_end_of_reader(t.reader[1]) THEN ResEnd
                                     ELSE ResErr("content size is larger than expected"),
                             tree |-> [t1 EXCEPT !.reader = <<>>]]
                       [] OTHER -> parse_entry(t1, sized, m)
                   : m \in {parse_mode(sized)} })
             : sized \in {Take(t.reader[1], t.size - t.bytes_read)},
               t1 \in {[t EXCEPT !.entry_no = @ + 1]} })

\* Mutant of parse: an error keeps the reader.
parse_KeepReader(t) == parse_inner(t)

\* parse: an error drops the reader.
parse(t) ==
    The({ IF r.res.kind = "err" THEN [res |-> r.res, tree |-> [r.tree EXCEPT !.reader = <<>>]]
          ELSE r
        : r \in {parse_inner(t)} })

(***************************************************************************)
(* The tree writer's directory listing.  A directory entry is [name, kind] *)
(* with kind what Path::metadata reports of the entry's path: "dir",       *)
(* "file" (a regular file, not executable), "exec", "other" (neither a     *)
(* directory nor a regular file), "error" (metadata failed) or "link"      *)
(* (a symbolic link itself); a listed file is [name, mode] with mode an    *)
(* ObjectMode's name.                                                      *)
(***************************************************************************)
SLASH == 47

\* GIT_PATH as bytes: ".git".
GIT_PATH == <<46, 103, 105, 116>>

NoSorted == [done |-> FALSE, err |-> "", files |-> <<>>]

\* <[u8] as Ord>::cmp: "Less", "Equal" or "Greater".
RECURSIVE cmp(_, _)
cmp(a, b) ==
    CASE a = <<>> /\ b = <<>> -> "Equal"
      [] a = <<>> -> "Less"
      [] b = <<>> -> "Greater"
      [] Head(a) < Head(b) -> "Less"
      [] Head(a) > Head(b) -> "Greater"
      [] OTHER -> cmp(Tail(a), Tail(b))

\* Mutant of entry_sort: plain comparison of the names, no synthetic byte.
entry_sort_Plain(left, right) == cmp(left.name, right.name)

\* Mutant of entry_sort: the common part of the names decides alone.
entry_sort_BaseOnly(left, right) ==
    LET common_len == IF Len(left.name) < Len(right.name) THEN Len(left.name) ELSE Len(right.name)
    IN  cmp(SubSeq(left.name, 1, common_len), SubSeq(right.name, 1, common_len))

\* entry_sort.
entry_sort(left, right) ==
    LET common_len == IF Len(left.name) < Len(right.name) THEN Len(left.name) ELSE Len(right.name)
        base_cmp == cmp(SubSeq(left.name, 1, common_len), SubSeq(right.name, 1, common_len))
        left_next == IF Len(left.name) > common_len THEN left.name[common_len + 1]
                     ELSE IF left.mode = "Tree" THEN SLASH ELSE NUL
        right_next == IF Len(right.name) > common_len THEN right.name[common_len + 1]
                      ELSE IF right.mode = "Tree" THEN SLASH ELSE NUL
    IN  IF base_cmp # "Equal" THEN base_cmp
        ELSE cmp(<<left_next>>, <<right_next>>)

\* The mode get_dir_entries_sorted gives a directory entry.
ModeOf(kind) ==
    CASE kind = "dir" -> "Tree"
      [] kind = "exec" -> "Executable"
      [] OTHER -> "Normal"

ERR_METADATA == "Failed to read metadata"
ERR_SYMLINK == "Handling symlinks is not implemented yet!"
ERR_NEITHER == "found path is neither dir nor file"

\* The loop of get_dir_entries_sorted over the entries in read_dir's order:
\* [err, files], the first entry that fails ending the loop; .git is skipped
\* once its metadata was read.
RECURSIVE PushEntries(_)
PushEntries(entries) ==
    IF entries = <<>> THEN [err |-> "", files |-> <<>>]
    ELSE IF Head(entries).kind = "error" THEN [err |-> ERR_METADATA, files |-> <<>>]
    ELSE IF Head(entries).kind = "link" THEN [err |-> ERR_SYMLINK, files |-> <<>>]
    ELSE IF Head(entries).name = GIT_PATH THEN PushEntries(Tail(entries))
    ELSE IF Head(entries).kind \notin {"dir", "file", "exec"}
         THEN [err |-> ERR_NEITHER, files |-> <<>>]
    ELSE The({ IF rest.err # "" THEN rest
               ELSE [err |-> "",
                     files |-> <<[name |-> Head(entries).name,
                                  mode |-> ModeOf(Head(entries).kind)]>> \o rest.files]
             : rest \in {PushEntries(Tail(entries))} })

\* slice::sort_unstable_by on a short slice: insertion sort; insert_tail moves
\* the last element left while it is less than its predecessor.
RECURSIVE insert_tail(_, _)
insert_tail(v, x) ==
    IF v = <<>> THEN <<x>>
    ELSE IF entry_sort(x, v[Len(v)]) = "Less"
         THEN Append(insert_tail(SubSeq(v, 1, Len(v) - 1), x), v[Len(v)])
    ELSE Append(v, x)

RECURSIVE sort_unstable_by(_)
sort_unstable_by(v) ==
    IF v = <<>> THEN <<>>
    ELSE insert_tail(sort_unstable_by(SubSeq(v, 1, Len(v) - 1)), v[Len(v)])

\* get_dir_entries_sorted on a directory read_dir lists as entries.
get_dir_entries_sorted(entries) ==
    The({ IF pushed.err # "" THEN [done |-> TRUE, err |-> pushed.err, files |-> <<>>]
          ELSE [done |-> TRUE, err |-> "", files |-> sort_unstable_by(pushed.files)]
        : pushed \in {PushEntries(entries)} })

(***************************************************************************)
(* hash_object as one call, on a disk [dirs, files, temp]: [err, hash,     *)
(* disk].  The steps are those of the encoder above: the temp file created *)
(* or truncated, the header and the body written through the HashWriter,   *)
(* the size check, the hash, move_temporary_file.                          *)
(***************************************************************************)
Disk == [dirs |-> dirs, files |-> files, temp |-> temp]

hash_object(disk, object_type, size, body, write_file) ==
    The({ The({ LET t2 == IF write_file THEN [c.temp EXCEPT !.finished = TRUE] ELSE c.temp
                    hash == Finalize(c.hasher)
                    path == get_object_path_by_hash(hash)
                IN  IF SizeMismatch(c.written_size, size)
                    THEN [err |-> "invalid data size", hash |-> <<>>,
                          disk |-> [disk EXCEPT !.temp = t2]]
                    ELSE IF write_file
                    THEN [err |-> "", hash |-> hash,
                          disk |-> [dirs |-> disk.dirs \cup {PathDir(path)},
                                    files |-> (path :> Renamed(t2)) @@ disk.files,
                                    temp |-> NoTemp]]
                    ELSE [err |-> "", hash |-> hash, disk |-> [disk EXCEPT !.temp = t2]]
              : c \in {HashWriter_write(write_file, h.hasher, h.temp, body)} })
        : h \in {HashWriter_write(write_file, <<>>,
                                  IF write_file
                                  THEN [exists |-> TRUE, data |-> <<>>, finished |-> FALSE]
                                  ELSE disk.temp,
                                  Header(object_type, size))} })

(***************************************************************************)
(* The working tree.  wt maps a node to [kind, target]: kind is "none"     *)
(* (no such entry), "dir", "file", "exec", "noread" (a regular file that   *)
(* cannot be opened), "fifo" or "link" (a symbolic link to the node        *)
(* target, to nothing when target is NoTarget).  The root directory has    *)
(* the entries "a", "\xC3" and ".git", the directory "a" the entries "a"   *)
(* and "b"; OutsideFile is a regular file outside the root.                *)
(***************************************************************************)
RootNode == 0
GitNode == 5
OutsideFile == 6
NoTarget == 7
WtNodes == 0..6

\* The most symbolic links the system follows while it resolves one path
\* (ELOOP beyond it).
SymloopMax == 1

Children(dir) ==
    CASE dir = RootNode -> {[name |-> <<97>>, node |-> 1], [name |-> <<195>>, node |-> 2],
                            [name |-> GIT_PATH, node |-> GitNode]}
      [] dir = 1 -> {[name |-> <<97>>, node |-> 3], [name |-> <<98>>, node |-> 4]}
      [] OTHER -> {}

\* The bytes of a regular file.
Content(node) == IF node % 2 = 1 THEN <<97>> ELSE <<>>

\* fs::read_dir: the entries a directory holds.
ReadDir(dir) == {c \in Children(dir) : wt[c.node].kind # "none"}

ChildNode(dir, name) == (CHOOSE c \in Children(dir) : c.name = name).node

\* The node a path ending at this node resolves to: a link is followed.
Resolve(node) == IF wt[node].kind = "link" THEN wt[node].target ELSE node

\* Mutant of metadata: fs::symlink_metadata, which does not follow a link.
metadata_NoFollow(node, links) ==
    CASE wt[node].kind = "link" -> "link"
      [] wt[node].kind = "noread" -> "file"
      [] wt[node].kind = "fifo" -> "other"
      [] OTHER -> wt[node].kind

\* Path::metadata on the path of an entry, links the number of symbolic links
\* in the path of its directory: the kind get_dir_entries_sorted sees.  stat
\* follows a link that ends the path, so is_symlink is never true of it.
metadata(node, links) ==
    CASE wt[node].kind = "link" /\ links + 1 > SymloopMax -> "error"
      [] wt[node].kind = "link" /\ wt[node].target = NoTarget -> "error"
      [] wt[node].kind = "link" ->
            (IF wt[wt[node].target].kind = "noread" THEN "file" ELSE wt[wt[node].target].kind)
      [] wt[node].kind = "noread" -> "file"
      [] wt[node].kind = "fifo" -> "other"
      [] OTHER -> wt[node].kind

\* hash_blob on the path of a node: File::open follows a link.
hash_blob(disk, node, write_file) ==
    IF wt[Resolve(node)].kind = "noread"
    THEN [err |-> "Failed to open file", hash |-> <<>>, disk |-> disk]
    ELSE hash_object(disk, "Blob", Len(Content(Resolve(node))), Content(Resolve(node)), write_file)

\* ObjectMode as usize, which Display prints.
ModeNumber(mode) ==
    CASE mode = "Normal" -> 100644
      [] mode = "Executable" -> 100755
      [] mode = "Symlink" -> 120000
      [] OTHER -> 40000

\* hex::decode: a byte for each two digits.
HexDecode(hex) == [i \in 1..(Len(hex) \div 2) |-> 16 * hex[2 * i - 1] + hex[2 * i]]

\* What the loop of hash_tree appends to tree_data for a TreeItem.
ItemBytes(item) ==
    Decimal(ModeNumber(item.mode)) \o <<SP>> \o item.file_name \o <<NUL>> \o HexDecode(item.hash)

(***************************************************************************)
(* hash_tree, a step at a time.  A frame of the stack is a hash_tree call: *)
(* [dir, links, listed, entries, tree_data, items], dir the node its path  *)
(* resolves to, links the symbolic links in that path, entries what the    *)
(* TreeIterator has still to yield, items the TreeItems appended so far.   *)
(***************************************************************************)
NoTreeCall == [n |-> 0, write_files |-> FALSE, temp0 |-> NoTemp]
NoTreeRet == [done |-> FALSE, err |-> "", some |-> FALSE, hash |-> <<>>, items |-> <<>>]
NoTreeMemo == [set |-> FALSE, write_files |-> FALSE, ret |-> NoTreeRet]
Frame(dir, links) ==
    [dir |-> dir, links |-> links, listed |-> FALSE, entries |-> <<>>,
     tree_data |-> <<>>, items |-> <<>>]

MaxTreeCalls == 2

Top == stack[Len(stack)]
Below == SubSeq(stack, 1, Len(stack) - 1)

\* The outermost hash_tree is called on the root.
HashTreeCall(write_files) ==
    /\ stack = <<>>
    /\ ~tree.some
    /\ tcall.n < MaxTreeCalls
    /\ tcall.n = 0 \/ tret.done
    /\ tcall' = [n |-> tcall.n + 1, write_files |-> write_files, temp0 |-> temp]
    /\ tmemo' = IF tret.done /\ ~tmemo.set
                THEN [set |-> TRUE, write_files |-> tcall.write_files, ret |-> tret]
                ELSE tmemo
    /\ tret' = NoTreeRet
    /\ files0' = files
    /\ dirs0' = dirs
    /\ stack' = <<Frame(RootNode, 0)>>
    /\ UNCHANGED <<dirs, files, temp, pc, call, prog, ret, memo, calls, cat, wt,
                   findVars, readVars, treeVars, sortVars, commitVars>>

\* An error leaves every hash_tree in progress through the ? operators.
Fail(err) ==
    /\ stack' = <<>>
    /\ tret' = [NoTreeRet EXCEPT !.done = TRUE, !.err = err]

\* Mutant of ReturnUp: the caller appends a TreeItem for None as well.
ReturnUp_KeepNone(some, hash) ==
    IF Len(stack) = 1
    THEN /\ stack' = <<>>
         /\ tret' = [done |-> TRUE, err |-> "", some |-> some, hash |-> hash,
                     items |-> Top.items]
    ELSE /\ tret' = tret
         /\ \E parent \in {stack[Len(stack) - 1]} :
              \E item \in {[mode |-> Head(parent.entries).mode,
                            file_name |-> Head(parent.entries).name, hash |-> hash]} :
                stack' = Append(SubSeq(stack, 1, Len(stack) - 2),
                    [parent EXCEPT !.entries = Tail(@),
                                   !.tree_data = @ \o ItemBytes(item),
                                   !.items = Append(@, item)])

\* The innermost hash_tree returns Ok(None) or Ok(Some(hash)): the outermost
\* call is over, or get_tree_item of the caller has the hash, skips the entry
\* on None and else the loop of the caller appends the TreeItem.
ReturnUp(some, hash) ==
    IF Len(stack) = 1
    THEN /\ stack' = <<>>
         /\ tret' = [done |-> TRUE, err |-> "", some |-> some, hash |-> hash,
                     items |-> Top.items]
    ELSE /\ tret' = tret
         /\ \E parent \in {stack[Len(stack) - 1]} :
              \E item \in {[mode |-> Head(parent.entries).mode,
                            file_name |-> Head(parent.entries).name, hash |-> hash]} :
                stack' = Append(SubSeq(stack, 1, Len(stack) - 2),
                    IF some
                    THEN [parent EXCEPT !.entries = Tail(@),
                                        !.tree_data = @ \o ItemBytes(item),
                                        !.items = Append(@, item)]
                    ELSE [parent EXCEPT !.entries = Tail(@)])

\* get_dir_entries_sorted of the innermost call, read_dir listing in any order.
TreeList ==
    /\ stack # <<>>
    /\ ~Top.listed
    /\ \E order \in Orders(ReadDir(Top.dir)) :
         \E r \in {get_dir_entries_sorted(
                      [i \in 1..Len(order) |->
                          [name |-> order[i].name, kind |-> metadata(order[i].node, Top.links)]])} :
            IF r.err # "" THEN Fail(r.err)
            ELSE IF Len(r.files) = 0 THEN ReturnUp(FALSE, <<>>)
            ELSE /\ stack' = Append(Below, [Top EXCEPT !.listed = TRUE, !.entries = r.files])
                 /\ tret' = tret
    /\ UNCHANGED <<storeVars, wt, tcall, tmemo, findVars, readVars, treeVars, sortVars, commitVars>>

\* The TreeIterator of the innermost call takes its next entry: get_tree_item
\* calls hash_tree on a Tree, hash_blob on a file.
TreeItemNext ==
    /\ stack # <<>>
    /\ Top.listed
    /\ Top.entries # <<>>
    /\ \E e \in {Head(Top.entries)} : \E node \in {ChildNode(Top.dir, e.name)} :
         CASE e.mode = "Tree" ->
                /\ stack' = Append(stack, Frame(Resolve(node),
                                Top.links + (IF wt[node].kind = "link" THEN 1 ELSE 0)))
                /\ UNCHANGED <<dirs, files, temp, tret>>
           [] e.mode \in {"Normal", "Executable"} ->
                \E r \in {hash_blob(Disk, node, tcall.write_files)} :
                    /\ dirs' = r.disk.dirs
                    /\ files' = r.disk.files
                    /\ temp' = r.disk.temp
                    /\ IF r.err # "" THEN Fail(r.err)
                       ELSE /\ tret' = tret
                            /\ \E item \in {[mode |-> e.mode, file_name |-> e.name, hash |-> r.hash]} :
                                 stack' = Append(Below,
                                     [Top EXCEPT !.entries = Tail(@),
                                                 !.tree_data = @ \o ItemBytes(item),
                                                 !.items = Append(@, item)])
           [] OTHER ->
                /\ Fail(ERR_SYMLINK)
                /\ UNCHANGED <<dirs, files, temp>>
    /\ UNCHANGED <<pc, call, prog, ret, files0, dirs0, memo, calls, cat, wt, tcall, tmemo,
                   findVars, readVars, treeVars, sortVars, commitVars>>

\* The loop of the innermost call is over: None for no tree_data, else
\* hash_object on tree_data.
TreeFinish ==
    /\ stack # <<>>
    /\ Top.listed
    /\ Top.entries = <<>>
    /\ IF Len(Top.tree_data) = 0
       THEN /\ ReturnUp(FALSE, <<>>)
            /\ UNCHANGED <<dirs, files, temp>>
       ELSE \E r \in {hash_object(Disk, "Tree", Len(Top.tree_data), Top.tree_data,
                                  tcall.write_files)} :
                /\ dirs' = r.disk.dirs
                /\ files' = r.disk.files
                /\ temp' = r.disk.temp
                /\ IF r.err # "" THEN Fail(r.err) ELSE ReturnUp(TRUE, r.hash)
    /\ UNCHANGED <<pc, call, prog, ret, files0, dirs0, memo, calls, cat, wt, tcall, tmemo,
                   findVars, readVars, treeVars, sortVars, commitVars>>

\* find_and_decode_object on the hash the outermost hash_tree returned, and
\* TreeObjectIterator::from_decoded_object on the object.
ReadTreeBack ==
    /\ stack = <<>>
    /\ tret.done /\ tret.some
    /\ tcall.write_files
    /\ ~obj.done
    /\ \E entries \in ReadDirOrders(tret.hash) :
         \E f \in {find_object_file(tret.hash, entries)} :
            IF f.err # ""
            THEN /\ obj' = [done |-> TRUE, err |-> f.err, file_path |-> <<>>,
                            object_type |-> "None", size |-> 0, reader |-> Reader(<<>>, "eof")]
                 /\ tree' = NoTree
            ELSE \E o \in {read_and_decode_object_file(f.file_path, files[f.file_path])} :
                 /\ obj' = [done |-> TRUE, err |-> o.err, file_path |-> o.file_path,
                            object_type |-> o.object_type, size |-> o.size, reader |-> o.reader]
                 /\ tree' = IF o.err = "" THEN from_decoded_object(o) ELSE NoTree
    /\ UNCHANGED <<yielded, drained, storeVars, findVars, sortVars, writeVars, commitVars>>

(***************************************************************************)
(* hash_commit.  validate_existing_hash is looked up and decoded as the    *)
(* repository's description of it says: the identifier is resolved by      *)
(* find_object_file, the object decoded, its type required to be the       *)
(* expected one, and the full hash of the object found is returned.        *)
(***************************************************************************)
ERR_WRONG_TYPE == "WrongObjectType"

\* get_hash_by_object_path: the directory and the file name of the path.
get_hash_by_object_path(file_path) == file_path[3] \o file_path[5]

\* validate_existing_hash, with the order read_dir lists the directory in:
\* [err, hash].
validate_existing_hash(hash, expected, entries) ==
    The({ IF f.err # "" THEN [err |-> f.err, hash |-> <<>>]
          ELSE The({ CASE o.err # "" -> [err |-> o.err, hash |-> <<>>]
                       [] o.object_type # expected -> [err |-> ERR_WRONG_TYPE, hash |-> <<>>]
                       [] OTHER -> [err |-> "", hash |-> get_hash_by_object_path(f.file_path)]
                   : o \in {read_and_decode_object_file(f.file_path, files[f.file_path])} })
        : f \in {find_object_file(hash, entries)} })

\* A hash, a sequence of hex digits, as the characters format! prints.
HexChars(hash) == [i \in 1..Len(hash) |-> IF hash[i] < 10 THEN 48 + hash[i] ELSE 87 + hash[i]]

STR_TREE == <<116, 114, 101, 101, 32>>
STR_PARENT == <<10, 112, 97, 114, 101, 110, 116, 32>>
STR_AUTHOR == <<10, 97, 117, 116, 104, 111, 114, 32>>
STR_COMMITTER == <<10, 99, 111, 109, 109, 105, 116, 116, 101, 114, 32>>

\* The format! of create_commit_body.
CommitData(tree_id, parent_line, message, author, email, timestamp, timezone) ==
    STR_TREE \o HexChars(tree_id) \o parent_line
        \o STR_AUTHOR \o author \o <<32, 60>> \o email \o <<62, 32>>
        \o Decimal(timestamp) \o <<32>> \o timezone
        \o STR_COMMITTER \o author \o <<32, 60>> \o email \o <<62, 32>>
        \o Decimal(timestamp) \o <<32>> \o timezone
        \o <<10, 10>> \o message \o <<10>>

NoParent == [some |-> FALSE, hash |-> <<>>]
SomeParent(hash) == [some |-> TRUE, hash |-> hash]

\* Mutant of create_commit_body: the identifiers are embedded as they were given.
create_commit_body_AsGiven(tree_id, parent, message, author, email, timestamp, timezone, tree_entries, parent_entries) ==
    The({ IF t.err # "" THEN [err |-> t.err, data |-> <<>>]
          ELSE IF ~parent.some
          THEN [err |-> "", data |-> CommitData(tree_id, <<>>, message, author, email,
                                                timestamp, timezone)]
          ELSE The({ IF p.err # "" THEN [err |-> p.err, data |-> <<>>]
                     ELSE [err |-> "",
                           data |-> CommitData(tree_id, STR_PARENT \o HexChars(parent.hash),
                                               message, author, email, timestamp, timezone)]
                   : p \in {validate_existing_hash(parent.hash, "Commit", parent_entries)} })
        : t \in {validate_existing_hash(tree_id, "Tree", tree_entries)} })

\* Mutant of create_commit_body: the parent is not validated.
create_commit_body_AnyParent(tree_id, parent, message, author, email, timestamp, timezone, tree_entries, parent_entries) ==
    The({ IF t.err # "" THEN [err |-> t.err, data |-> <<>>]
          ELSE [err |-> "",
                data |-> CommitData(t.hash,
                                    IF parent.some THEN STR_PARENT \o HexChars(parent.hash)
                                    ELSE <<>>,
                                    message, author, email, timestamp, timezone)]
        : t \in {validate_existing_hash(tree_id, "Tree", tree_entries)} })

\* create_commit_body: [err, data].
create_commit_body(tree_id, parent, message, author, email, timestamp, timezone, tree_entries, parent_entries) ==
    The({ IF t.err # "" THEN [err |-> t.err, data |-> <<>>]
          ELSE IF ~parent.some
          THEN [err |-> "", data |-> CommitData(t.hash, <<>>, message, author, email,
                                                timestamp, timezone)]
          ELSE The({ IF p.err # "" THEN [err |-> p.err, data |-> <<>>]
                     ELSE [err |-> "",
                           data |-> CommitData(t.hash, STR_PARENT \o HexChars(p.hash),
                                               message, author, email, timestamp, timezone)]
                   : p \in {validate_existing_hash(parent.hash, "Commit", parent_entries)} })
        : t \in {validate_existing_hash(tree_id, "Tree", tree_entries)} })

\* hash_commit: [err, hash, data, disk].
hash_commit(disk, tree_id, parent, message, author, email, timestamp, timezone, write_file, tree_entries, parent_entries) ==
    The({ IF b.err # "" THEN [err |-> b.err, hash |-> <<>>, data |-> <<>>, disk |-> disk]
          ELSE The({ [err |-> r.err, hash |-> r.hash, data |-> b.data, disk |-> r.disk]
                   : r \in {hash_object(disk, "Commit", Len(b.data), b.data, write_file)} })
        : b \in {create_commit_body(tree_id, parent, message, author, email, timestamp,
                                    timezone, tree_entries, parent_entries)} })

NoCommit == [done |-> FALSE, tree |-> <<>>, parent |-> NoParent, message |-> <<>>,
             write_file |-> FALSE, err |-> "", hash |-> <<>>, data |-> <<>>]

\* The author, the email, the timestamp and the timezone of test_hash_commit.
COMMIT_AUTHOR == <<116, 101, 115, 116>>
COMMIT_EMAIL == <<101, 120, 97, 109, 112, 108, 101, 64, 101, 120, 97, 109, 112, 108, 101,
                  46, 99, 111, 109>>
COMMIT_TIMEZONE == <<43, 48, 52, 48, 48>>
TestTimestamp == 1713381411

\* hash_object with write_file on an object of the right size, as one step.
StoreObject(object_type, body) ==
    /\ pc = "idle"
    /\ ~commit.done
    /\ \E r \in {hash_object(Disk, object_type, Len(body), body, TRUE)} :
         /\ dirs' = r.disk.dirs
         /\ files' = r.disk.files
         /\ temp' = r.disk.temp
    /\ UNCHANGED <<pc, call, prog, ret, files0, dirs0, memo, calls, cat,
                   findVars, readVars, treeVars, sortVars, writeVars, commitVars>>

\* hash_commit called on two identifiers.
HashCommit(tree_id, parent, message, write_file) ==
    /\ pc = "idle"
    /\ ~commit.done
    /\ \E tree_entries \in ReadDirOrders(tree_id), parent_entries \in ReadDirOrders(parent.hash) :
         \E r \in {hash_commit(Disk, tree_id, parent, message, COMMIT_AUTHOR, COMMIT_EMAIL,
                               TestTimestamp, COMMIT_TIMEZONE, write_file,
                               tree_entries, parent_entries)} :
            /\ commit' = [done |-> TRUE, tree |-> tree_id, parent |-> parent, message |-> message,
                          write_file |-> write_file, err |-> r.err, hash |-> r.hash,
                          data |-> r.data]
            /\ dirs' = r.disk.dirs
            /\ files' = r.disk.files
            /\ temp' = r.disk.temp
    /\ files0' = files
    /\ dirs0' = dirs
    /\ UNCHANGED <<pc, call, prog, ret, memo, calls, cat,
                   findVars, readVars, treeVars, sortVars, writeVars>>

(***************************************************************************)
(* Specification Spec: hash_object called again and again on small inputs, *)
(* from the empty store, with crashes.                                     *)
(***************************************************************************)
Seqs(S, n) == UNION {[1..k -> S] : k \in 0..n}

\* Declared sizes around the length of a body.
SizesNear(body) == {n \in {SLen(body) - 1, SLen(body), SLen(body) + 1} : n >= 0}

SmallBodies == Seqs({97}, MaxBody)

NoFound == [done |-> FALSE, err |-> "", file_path |-> <<>>]
NoObj == [done |-> FALSE, err |-> "", file_path |-> <<>>, object_type |-> "None", size |-> 0,
          reader |-> Reader(<<>>, "eof")]
NoDrained == [done |-> FALSE, err |-> "", written |-> <<>>, object_type |-> "None",
              size |-> 0, probe |-> "none"]

InitStore ==
    /\ dirs = {}
    /\ files = <<>>
    /\ temp = NoTemp
    /\ pc = "idle"
    /\ call = NoCall
    /\ prog = NoProg
    /\ ret = NoRet
    /\ files0 = <<>>
    /\ dirs0 = {}
    /\ memo = NoMemo
    /\ calls = 0
    /\ cat = NoCat

InitFind == query = <<>> /\ found = NoFound
InitRead == obj = NoObj /\ drained = NoDrained
InitTree == tree = NoTree /\ yielded = <<>>
InitSort == listing = <<>> /\ sorted = NoSorted

\* No hash_tree call; the working tree is an empty root directory.
NoNode == [kind |-> "none", target |-> NoTarget]
DirNode == [kind |-> "dir", target |-> NoTarget]
FileNode == [kind |-> "file", target |-> NoTarget]
EmptyRoot == [n \in WtNodes |-> IF n = RootNode THEN DirNode ELSE NoNode]
InitCalls == stack = <<>> /\ tcall = NoTreeCall /\ tret = NoTreeRet /\ tmemo = NoTreeMemo
InitWrite == wt = EmptyRoot /\ InitCalls
InitCommit == commit = NoCommit

Init == InitStore /\ InitFind /\ InitRead /\ InitTree /\ InitSort /\ InitWrite /\ InitCommit

\* hash_object called by hash_blob, hash_tree, hash_commit or the command line.
HashObject ==
    \E object_type \in ObjectType, body \in SmallBodies, write_file \in BOOLEAN :
        \E size \in SizesNear(body) : Call(object_type, size, body, write_file)

Next ==
    \/ HashObject
    \/ WriteHeader
    \/ CopyChunk
    \/ CopyEnd
    \/ MoveCreateDir
    \/ MoveRename
    \/ Return
    \/ Crash

Spec == Init /\ [][Next]_vars

(***************************************************************************)
(* Specification SpecBlob: one hash_object call on a body of any content   *)
(* and of a size up to just above MAX_OBJECT_SIZE, then the object is read *)
(* back.                                                                   *)
(***************************************************************************)
BlobBytes == {NUL, SP, 49, 97}

BigBodies == {<<-(MAX_OBJECT_SIZE - 1)>> \o s : s \in {<<>>, <<97>>, <<97, 97>>}}

BlobBodies == Seqs(BlobBytes, MaxBody + 1) \cup BigBodies

HashObjectAny ==
    \E object_type \in ObjectType, body \in BlobBodies, write_file \in BOOLEAN :
        \E size \in SizesNear(body) : Call(object_type, size, body, write_file)

NextBlob ==
    \/ HashObjectAny
    \/ WriteHeader
    \/ CopyChunk
    \/ CopyEnd
    \/ MoveCreateDir
    \/ MoveRename
    \/ CatFile

SpecBlob == Init /\ [][NextBlob]_vars

(***************************************************************************)
(* Specification SpecFind: objects are persisted, then identifiers are     *)
(* looked up.  The bodies are chosen so that several object names share a  *)
(* prefix directory and prefixes of MIN_OBJECT_SEARCH_LEN and more digits. *)
(***************************************************************************)
FindTypes == {"Blob", "Tree"}

FindBodies == {<<97>>, <<97, 97>>, <<97, 98>>, <<98, 98>>}

\* The names hash_object gives the objects that may be stored.
FindHashes ==
    {Sha1Hex(SCat(Header(t, SLen(b)), b)) : t \in FindTypes, b \in FindBodies}

\* Identifiers: every prefix of a name, and a name with one more digit.
FindQueries ==
    {SubSeq(h, 1, n) : h \in FindHashes, n \in 0..HASH_ENCODED_LEN}
        \cup {Append(h, 0) : h \in FindHashes}

HashObjectFind ==
    \E object_type \in FindTypes, body \in FindBodies :
        Call(object_type, SLen(body), body, TRUE)

\* find_object_file called on an identifier, after the hash_object calls.
Find(object) ==
    /\ pc = "idle"
    /\ \E entries \in ReadDirOrders(object) :
          found' = [done |-> TRUE] @@ find_object_file(object, entries)
    /\ query' = object
    /\ pc' = "found"
    /\ UNCHANGED <<dirs, files, temp, call, prog, ret, files0, dirs0, memo, calls, cat,
                   readVars, treeVars, sortVars, writeVars, commitVars>>

FindAny == pc = "idle" /\ \E object \in FindQueries : Find(object)

NextFind ==
    \/ HashObjectFind
    \/ WriteHeader
    \/ CopyChunk
    \/ CopyEnd
    \/ MoveCreateDir
    \/ MoveRename
    \/ Return
    \/ FindAny

SpecFind == Init /\ [][NextFind]_vars

(***************************************************************************)
(* Specification SpecLocate: SpecFind in an object store that other        *)
(* programs write to as well.  find_object_file reads the prefix directory *)
(* with fs::read_dir, which yields whatever files the directory holds: a   *)
(* file left by another program (a truncated or a suffixed object name) is *)
(* listed like the files hash_object renamed into place.                   *)
(***************************************************************************)
MaxForeign == 1

\* The lengths of the foreign file names: a short one, one digit less and one
\* digit more than an object's file name.
ForeignLens == {2, HASH_ENCODED_LEN - OBJECT_DIR_LEN - 1, HASH_ENCODED_LEN - OBJECT_DIR_LEN + 1}

\* The first n characters of an object's file name, or the name and one digit.
ForeignName(name, n) == IF n <= Len(name) THEN SubSeq(name, 1, n) ELSE Append(name, 0)

\* The files of the store whose name is not an object's file name.
ForeignFiles == {p \in DOMAIN files : Len(PathName(p)) # HASH_ENCODED_LEN - OBJECT_DIR_LEN}

\* Another program leaves a file in a prefix directory that exists.
ForeignFile(hash, n) ==
    /\ pc = "idle"
    /\ Cardinality(ForeignFiles) < MaxForeign
    /\ split_at(hash, OBJECT_DIR_LEN)[1] \in dirs
    /\ files' = (<<OBJECTS_PATH, "/", split_at(hash, OBJECT_DIR_LEN)[1], "/",
                   ForeignName(split_at(hash, OBJECT_DIR_LEN)[2], n)>>
                    :> [data |-> <<>>, tail |-> "eof"]) @@ files
    /\ UNCHANGED <<dirs, temp, pc, call, prog, ret, files0, dirs0, memo, calls, cat, notStore>>

ForeignFileAny ==
    pc = "idle" /\ \E hash \in FindHashes, n \in ForeignLens : ForeignFile(hash, n)

NextLocate ==
    \/ HashObjectFind
    \/ WriteHeader
    \/ CopyChunk
    \/ CopyEnd
    \/ MoveCreateDir
    \/ MoveRename
    \/ Return
    \/ ForeignFileAny
    \/ FindAny

SpecLocate == Init /\ [][NextLocate]_vars

(***************************************************************************)
(* Specification SpecRead: an object file is opened and decoded, then      *)
(* drained raw.  The file's decompressed stream is a header and a body, or *)
(* a part of them, followed by the end of the stream or by a read error    *)
(* (a corrupt zlib stream).                                                *)
(***************************************************************************)
MaxRead == 2

ReadStreams ==
    {SCat(Header(t, n), b) : t \in ObjectType, n \in 0..(MaxRead + 1),
                             b \in Seqs({NUL, 97}, MaxRead)}

ReadContents ==
    {Reader(STake(d, k), tail) : d \in ReadStreams, k \in 0..(MaxRead + 8),
                                 tail \in {"eof", "err"}}
        \cup {Reader(d, tail) : d \in ReadStreams, tail \in {"eof", "err"}}

\* read_and_decode_object_file on a file of the store.
ReadAndDecode(content) ==
    /\ ~obj.done
    /\ obj' = [done |-> TRUE] @@
                read_and_decode_object_file(get_object_path_by_hash(Sha1Hex(content.data)), content)
    /\ UNCHANGED <<drained, storeVars, findVars, treeVars, sortVars, writeVars, commitVars>>

ReadAndDecodeAny == ~obj.done /\ \E content \in ReadContents : ReadAndDecode(content)

\* drain_into_writer_raw on the decoded object.
Drain ==
    /\ obj.done /\ obj.err = ""
    /\ ~drained.done
    /\ drained' = [done |-> TRUE] @@ drain_into_writer_raw(obj)
    /\ UNCHANGED <<obj, storeVars, findVars, treeVars, sortVars, writeVars, commitVars>>

NextRead ==
    \/ ReadAndDecodeAny
    \/ Drain

SpecRead == Init /\ [][NextRead]_vars

(***************************************************************************)
(* Specification SpecTree: a decoded object is given to                    *)
(* TreeObjectIterator::from_decoded_object and next() is called until the  *)
(* end and beyond.  The bodies are lists of entries and every prefix of    *)
(* them; the declared sizes are around the body's length and at the entry  *)
(* boundaries; the names hold a byte below and a byte above 0x80.          *)
(***************************************************************************)
MaxEntries == 2

TreeModes == {<<49, 48, 48, 54, 52, 52>>, <<52, 48, 48, 48, 48>>}

TreeNames == {<<97>>, <<195>>}

TreeSha == [i \in 1..SHA_BUF_LEN |-> (i * 37) % 256]

TreeEntry(mode, name) == mode \o <<SP>> \o name \o <<NUL>> \o TreeSha

TreeEntries == {TreeEntry(mode, name) : mode \in TreeModes, name \in TreeNames}

\* An entry whose mode is no ObjectMode, and one whose mode is no number.
BadEntries == {TreeEntry(<<49>>, <<97>>), TreeEntry(<<97>>, <<97>>)}

RECURSIVE Flat(_)
Flat(l) == IF l = <<>> THEN <<>> ELSE Head(l) \o Flat(Tail(l))

EntryLists == Seqs(TreeEntries, MaxEntries) \cup {<<e>> : e \in BadEntries}

\* The path of the object file the tree is read from.
TreePath == get_object_path_by_hash(Sha1Hex(TreeSha))

TreeObject(object_type, body, size, tail) ==
    [done |-> TRUE, err |-> "", file_path |-> TreePath,
     object_type |-> object_type, size |-> size, reader |-> Reader(body, tail)]

\* The declared sizes tried on the first k bytes of the entries l.
TreeSizes(l, k) ==
    {n \in {k - 1, k, k + 1} : n >= 0} \cup {Len(Flat(SubSeq(l, 1, j))) : j \in 0..Len(l)}

\* The decoded objects made of the entries l: Trees of every prefix, and a Blob.
TreeObjectsOf(l) ==
    UNION {{TreeObject("Tree", SubSeq(Flat(l), 1, k), size, tail) :
                size \in TreeSizes(l, k), tail \in {"eof", "err"}} :
           k \in 0..Len(Flat(l))}
        \cup {TreeObject("Blob", Flat(l), Len(Flat(l)), "eof")}

\* from_decoded_object on a decoded object.
FromDecodedObject(object) ==
    /\ ~obj.done
    /\ obj' = object
    /\ tree' = from_decoded_object(object)
    /\ UNCHANGED <<yielded, drained, storeVars, findVars, sortVars, writeVars, commitVars>>

FromDecodedObjectAny ==
    /\ ~obj.done
    /\ \E l \in EntryLists : \E object \in TreeObjectsOf(l) : FromDecodedObject(object)

\* TreeObjectIterator::next.
TreeNext ==
    /\ tree.some
    /\ Len(yielded) < MaxEntries + 3
    /\ IF yielded = <<>> THEN TRUE ELSE yielded[Len(yielded)].kind # "panic"
    /\ \E r \in {parse(tree)} :
          /\ tree' = r.tree
          /\ yielded' = Append(yielded, r.res)
    /\ UNCHANGED <<obj, drained, storeVars, findVars, sortVars, writeVars, commitVars>>

NextTree ==
    \/ FromDecodedObjectAny
    \/ TreeNext

SpecTree == Init /\ [][NextTree]_vars

(***************************************************************************)
(* Specification SpecSort: get_dir_entries_sorted on a directory, listed   *)
(* by read_dir in any order.  The directories are those of a few entries   *)
(* with short names over a byte below and a byte above '/', and the        *)
(* directory of test_hash_tree.                                            *)
(***************************************************************************)
MaxName == 2
MaxListing == 2

SortBytes == {46, 48}

SortNames == Seqs(SortBytes, MaxName) \ {<<>>}

SortEntries == {[name |-> n, kind |-> k] : n \in SortNames, k \in {"dir", "file", "exec"}}

\* The orders in which read_dir may list the entries S.
RECURSIVE Listings(_)
Listings(S) ==
    IF S = {} THEN {<<>>}
    ELSE UNION {{<<e>> \o l : l \in Listings(S \ {e})} : e \in S}

\* Lists of at most n entries with distinct names.
RECURSIVE ListingsUpTo(_)
ListingsUpTo(n) ==
    IF n = 0 THEN {<<>>}
    ELSE ListingsUpTo(n - 1) \cup
         {Append(l, e) : l \in {x \in ListingsUpTo(n - 1) : Len(x) = n - 1},
                         e \in SortEntries}

DistinctNames(l) == \A i, j \in 1..Len(l) : l[i].name = l[j].name => i = j

\* The names of test_hash_tree's directory.
N_data == <<100, 97, 116, 97>>
N_order == <<111, 114, 100, 101, 114>>
N_order_txt == N_order \o <<46, 116, 120, 116>>
N_order_dir == N_order \o <<95, 100, 105, 114>>
N_order_dir_dir == N_order_dir \o <<46, 100, 105, 114>>
N_order_dir_txt == N_order_dir \o <<46, 116, 120, 116>>

TestDir ==
    {[name |-> N_data, kind |-> "dir"], [name |-> N_order, kind |-> "file"],
     [name |-> N_order_txt, kind |-> "file"], [name |-> N_order_dir_dir, kind |-> "dir"],
     [name |-> N_order_dir_txt, kind |-> "file"], [name |-> N_order_dir, kind |-> "dir"],
     [name |-> GIT_PATH, kind |-> "dir"]}

\* read_dir lists a directory of short names.
ReadDirSmall ==
    /\ listing = <<>> /\ ~sorted.done
    /\ \E l \in ListingsUpTo(MaxListing) :
          /\ l # <<>> /\ DistinctNames(l)
          /\ listing' = l
    /\ UNCHANGED <<sorted, storeVars, findVars, readVars, treeVars, writeVars, commitVars>>

\* read_dir lists the directory of test_hash_tree.
ReadDirTest ==
    /\ listing = <<>> /\ ~sorted.done
    /\ \E l \in Listings(TestDir) : listing' = l
    /\ UNCHANGED <<sorted, storeVars, findVars, readVars, treeVars, writeVars, commitVars>>

\* get_dir_entries_sorted returns.
GetDirEntriesSorted ==
    /\ listing # <<>> /\ ~sorted.done
    /\ sorted' = get_dir_entries_sorted(listing)
    /\ UNCHANGED <<listing, storeVars, findVars, readVars, treeVars, writeVars, commitVars>>

NextSort ==
    \/ ReadDirSmall
    \/ ReadDirTest
    \/ GetDirEntriesSorted

SpecSort == Init /\ [][NextSort]_vars

(***************************************************************************)
(* Specification SpecWrite: hash_tree called on the root of a working tree *)
(* and called again, writing the objects or not, and the Tree object it    *)
(* wrote read back by the TreeObjectIterator.  The working trees are those *)
(* of the root with up to two entries and .git, the first entry a          *)
(* directory of up to two entries; an entry is a regular file, an          *)
(* executable, an empty directory, a file that cannot be opened, a fifo,   *)
(* or a symbolic link to the root, to a file outside or to nothing.        *)
(***************************************************************************)
LeafNodes ==
    {[kind |-> k, target |-> NoTarget] : k \in {"none", "file", "exec", "dir", "noread", "fifo"}}
        \cup {[kind |-> "link", target |-> t] : t \in {RootNode, OutsideFile, NoTarget}}

WorkingTrees ==
    {(0 :> DirNode) @@ (1 :> a) @@ (2 :> b) @@ (3 :> c) @@ (4 :> d) @@ (GitNode :> g)
        @@ (OutsideFile :> FileNode)
     : a \in LeafNodes, b \in LeafNodes, g \in {NoNode, DirNode},
       c \in LeafNodes, d \in LeafNodes}

InitSpecWrite ==
    /\ InitStore /\ InitFind /\ InitRead /\ InitTree /\ InitSort /\ InitCalls /\ InitCommit
    /\ wt \in {w \in WorkingTrees : w[1].kind # "dir" => w[3] = NoNode /\ w[4] = NoNode}

HashTree == \E write_files \in BOOLEAN : HashTreeCall(write_files)

NextWrite ==
    \/ HashTree
    \/ TreeList
    \/ TreeItemNext
    \/ TreeFinish
    \/ ReadTreeBack
    \/ TreeNext

SpecWrite == InitSpecWrite /\ [][NextWrite]_vars

(***************************************************************************)
(* Specification SpecCommit: a few objects are stored, Trees, Commits and  *)
(* a Blob, and hash_commit is called on identifiers that are prefixes of   *)
(* their hashes, with a parent or without.                                 *)
(***************************************************************************)
MaxStored == 3
CommitObjects ==
    {[object_type |-> "Tree", body |-> <<97>>], [object_type |-> "Tree", body |-> <<98>>],
     [object_type |-> "Commit", body |-> <<97>>], [object_type |-> "Commit", body |-> <<98>>],
     [object_type |-> "Blob", body |-> <<97>>]}

CommitHashes == {Sha1Hex(Header(o.object_type, Len(o.body)) \o o.body) : o \in CommitObjects}

\* Identifiers: the hashes, and their prefixes of 4 and of 20 digits.
CommitQueries == {SubSeq(h, 1, n) : h \in CommitHashes, n \in {4, 20, HASH_ENCODED_LEN}}

StoreAny ==
    /\ Cardinality(DOMAIN files) < MaxStored
    /\ \E o \in CommitObjects : StoreObject(o.object_type, o.body)

HashCommitAny ==
    /\ pc = "idle"
    /\ ~commit.done
    /\ \E tree_id \in CommitQueries, parent \in {NoParent} \cup {SomeParent(q) : q \in CommitQueries},
          message \in {<<109>>}, write_file \in BOOLEAN :
            HashCommit(tree_id, parent, message, write_file)

NextCommit ==
    \/ StoreAny
    \/ HashCommitAny

SpecCommit == Init /\ [][NextCommit]_vars

(***************************************************************************)
(* Claims about the encoder and the store.                                 *)
(***************************************************************************)
\* A file holds a complete object named by its content: it decodes, its
\* declared size is the length of its body, and its path is made of the hex
\* SHA-1 of all its bytes.
CompleteObject(path, content) ==
    The({ /\ o.err = ""
          /\ content.tail = "eof"
          /\ SLen(o.reader.data) = o.size
          /\ path = get_object_path_by_hash(Sha1Hex(content.data))
        : o \in {read_and_decode_object_file(path, content)} })

SameTriple(a, b) ==
    a.object_type = b.object_type /\ a.size = b.size /\ a.body = b.body

\* What reading an object file back gives: the raw drain of the decoded file.
Decoded(path, content) ==
    The({ IF o.err # "" THEN [NoDrained EXCEPT !.done = TRUE, !.err = o.err]
          ELSE [done |-> TRUE] @@ drain_into_writer_raw(o)
        : o \in {read_and_decode_object_file(path, content)} })

\* C1: in every reachable state, every step of a persisting hash_object call and
\* every state a crash leaves included, each file at a permanent object path
\* holds a complete object: it decodes, its declared size equals its body length
\* and SHA-1(header || body) is the name formed by its directory and file name.
\* Partial content is only ever in the temp file.
C1_PermanentObjectsComplete ==
    \A path \in DOMAIN files : CompleteObject(path, files[path])

\* A crash left a partly written temp file beside a stored object.
C1_Witness ==
    /\ pc = "idle"
    /\ DOMAIN files # {}
    /\ temp.exists /\ ~temp.finished /\ temp.data # <<>>

\* C3: the hash hash_object returns is SHA-1 of the header made of (type, size)
\* followed by the body, so it is a function of (type, declared size, body)
\* alone: it equals the hash the first successful call returned for the same
\* triple, whatever ran in between, whatever the store holds and whatever the
\* persist flags.
C3_HashDeterministic ==
    (pc = "done" /\ ret.kind = "ok") =>
        /\ ret.hash = Sha1Hex(SCat(Header(call.object_type, call.size), call.body))
        /\ (memo.set /\ SameTriple(memo.call, call)) => ret.hash = memo.hash

\* The same triple hashed again with the other persist flag, on a store that
\* holds objects.
C3_Witness ==
    /\ pc = "done" /\ ret.kind = "ok"
    /\ memo.set /\ SameTriple(memo.call, call)
    /\ memo.call.write_file # call.write_file
    /\ DOMAIN files0 # {}

\* C4: when a triple already persisted is encoded again with persist enabled, the
\* second call returns the same hash, the object file at that hash's path exists
\* and decodes to what it decoded to after the first call, and the second call
\* leaves the set of permanent object files unchanged.
C4_Idempotent ==
    (/\ pc = "done" /\ ret.kind = "ok" /\ call.write_file
     /\ memo.set /\ memo.call.write_file /\ SameTriple(memo.call, call)) =>
        /\ ret.hash = memo.hash
        /\ get_object_path_by_hash(ret.hash) \in DOMAIN files
        /\ Decoded(get_object_path_by_hash(ret.hash), files[get_object_path_by_hash(ret.hash)])
              = Decoded(get_object_path_by_hash(ret.hash), memo.file[1])
        /\ Decoded(get_object_path_by_hash(ret.hash), memo.file[1]).err = ""
        /\ DOMAIN files = DOMAIN files0
        /\ dirs = dirs0

\* The second persisting call on the same triple has returned.
C4_Witness ==
    /\ pc = "done" /\ ret.kind = "ok" /\ call.write_file
    /\ memo.set /\ memo.call.write_file /\ SameTriple(memo.call, call)

\* C10: whenever the body source holds fewer or more bytes than the declared
\* size, hash_object fails with the size-mismatch error and returns no hash, and
\* the permanent object files and their directories are exactly as before the
\* call; only the temp file may have changed.
C10_SizeMismatchRefused ==
    (pc = "done" /\ SLen(call.body) # call.size) =>
        /\ ret.kind = "err"
        /\ ret.err = "invalid data size"
        /\ ret.hash = <<>>
        /\ files = files0
        /\ dirs = dirs0

\* A persisting call with a wrong declared size has failed on a store that holds
\* an object; its bytes are in the temp file.
C10_Witness ==
    /\ pc = "done" /\ call.write_file
    /\ SLen(call.body) # call.size
    /\ DOMAIN files # {}
    /\ temp.exists /\ temp.data # <<>>

\* C2 as stated: for every body B, hash_object(B, Blob, |B|, persist) and then
\* find_and_decode_object on the returned hash with a full drain give B, type
\* Blob and size |B|.
C2_RoundTripAnySize ==
    (cat.done /\ call.object_type = "Blob" /\ call.write_file
     /\ call.size = SLen(call.body)) =>
        /\ cat.err = ""
        /\ cat.written = call.body
        /\ cat.object_type = "Blob"
        /\ cat.size = SLen(call.body)

\* C2 amended: the round trip holds for every body B of at most MAX_OBJECT_SIZE
\* bytes, the empty one included.
C2_RoundTripUpToMax ==
    (cat.done /\ call.object_type = "Blob" /\ call.write_file
     /\ call.size = SLen(call.body) /\ SLen(call.body) <= MAX_OBJECT_SIZE) =>
        /\ cat.err = ""
        /\ cat.written = call.body
        /\ cat.object_type = "Blob"
        /\ cat.size = SLen(call.body)

\* A blob of exactly MAX_OBJECT_SIZE bytes was persisted and read back.
C2_Witness ==
    /\ cat.done /\ cat.err = ""
    /\ call.object_type = "Blob" /\ call.write_file
    /\ SLen(call.body) = MAX_OBJECT_SIZE

(***************************************************************************)
(* Claims about the locator.                                               *)
(***************************************************************************)
\* The hash a permanent path spells.
HashOf(path) == PathDir(path) \o PathName(path)

\* p is a prefix of h.
IsPrefix(p, h) == Len(p) <= Len(h) /\ \A i \in 1..Len(p) : p[i] = h[i]

\* The stored objects whose hash starts with an identifier.
Matching(object) == {path \in DOMAIN files : IsPrefix(object, HashOf(path))}

LengthValid(object) ==
    Len(object) >= MIN_OBJECT_SEARCH_LEN /\ Len(object) <= HASH_ENCODED_LEN

\* C6: when the identifier looked up is a prefix, of 4 to 40 digits, of the
\* hash h of a stored object and of no other stored object's hash,
\* find_object_file succeeds and returns objects/<h[0..2]>/<h[2..40]>, which is
\* also what it returns for h itself, in whatever order the directory is listed.
C6_AbbreviatedLookup ==
    (found.done /\ LengthValid(query)) =>
        \A path \in DOMAIN files :
            Matching(query) = {path} =>
                /\ found.err = ""
                /\ found.file_path = get_object_path_by_hash(HashOf(path))
                /\ found.file_path = path
                /\ \A entries \in ReadDirOrders(HashOf(path)) :
                      find_object_file(HashOf(path), entries)
                          = [err |-> "", file_path |-> found.file_path]

\* A 4-digit abbreviation found its object in a directory that holds another
\* object too.
C6_Witness ==
    /\ found.done /\ found.err = ""
    /\ Len(query) = MIN_OBJECT_SEARCH_LEN
    /\ found.file_path \in DOMAIN files
    /\ Cardinality(NamesIn(PathDir(found.file_path))) >= 2

\* C7: a lookup that fails returns no path and is classified: an identifier
\* shorter than 4 or longer than 40 fails as an invalid name; an identifier no
\* stored object matches fails as not found, the prefix directory existing or
\* not; an identifier two or more stored objects match fails as ambiguous; and
\* the not-found failure is neither of the other two.
C7_LookupFailuresClassified ==
    found.done =>
        /\ found.err # "" => found.file_path = <<>>
        /\ ~LengthValid(query) => found.err = "Invalid object name"
        /\ (LengthValid(query) /\ Cardinality(Matching(query)) >= 2) =>
              found.err = "Found multiple objects starting with"
        /\ (LengthValid(query) /\ Matching(query) = {}) =>
              /\ found.err # ""
              /\ found.err # "Invalid object name"
              /\ found.err # "Found multiple objects starting with"

(***************************************************************************)
(* Claims about the decoder.                                               *)
(***************************************************************************)
\* C9: drain_into_writer_raw succeeds only if exactly `size` body bytes were
\* copied and the stream has no byte after them; a body shorter than the
\* declared size and a body with bytes after it make it fail, and so does a
\* read error met by the read that probes for the end of the stream.
C9_DrainSizeExact ==
    drained.done =>
        /\ drained.err = "" =>
              /\ SLen(drained.written) = obj.size
              /\ SLen(obj.reader.data) = obj.size
              /\ drained.probe = "eof"
        /\ SLen(obj.reader.data) # obj.size => drained.err # ""
        /\ drained.probe = "err" => drained.err # ""

(***************************************************************************)
(* Claims about the tree reader.                                           *)
(***************************************************************************)
\* C8: for a Tree object whose declared size differs from the length of its
\* stored body, the iteration never ends cleanly without an error: when next()
\* has returned the end of the sequence, it returned an error before.
C8_TreeSizeMismatchDetected ==
    (/\ tree.some
     /\ obj.size # SLen(obj.reader.data)
     /\ yielded # <<>>
     /\ yielded[Len(yielded)].kind = "end") =>
        \E i \in 1..Len(yielded) : yielded[i].kind = "err"

\* C18: while a Tree body is iterated, bytes_read is the number of body bytes
\* consumed so far, it never exceeds the declared size, and the assertion
\* size >= bytes_read of parse_inner never fails, whatever bytes the names hold.
C18_ByteCounterExact ==
    tree.some =>
        /\ tree.reader # <<>> =>
              tree.bytes_read = SLen(obj.reader.data) - SLen(tree.reader[1].data)
        /\ tree.bytes_read <= tree.size
        /\ \A i \in 1..Len(yielded) : yielded[i].kind # "panic"

(***************************************************************************)
(* Claims about the tree writer's order.                                   *)
(***************************************************************************)
\* The name of an entry followed by its synthetic byte.
SortKey(e) == Append(e.name, IF e.mode = "Tree" THEN SLASH ELSE NUL)

\* Byte-lexicographic order: a is below b.
LexLess(a, b) ==
    \E i \in 1..(Len(a) + 1) :
        /\ i <= Len(b)
        /\ \A j \in 1..(i - 1) : a[j] = b[j]
        /\ i = Len(a) + 1 \/ a[i] < b[i]

PlainName(n) == \A i \in 1..Len(n) : n[i] # SLASH /\ n[i] # NUL

TestOrder ==
    <<N_data, N_order, N_order_txt, N_order_dir_dir, N_order_dir_txt, N_order_dir>>

\* C5: for every two listed entries with distinct names that hold neither '/'
\* nor NUL, entry_sort says Less, Greater exactly as the byte-lexicographic
\* comparison of the names followed by '/' for a Subtree and by 0x00 for any
\* other entry, and never Equal; the sorted entries, which hash_tree serializes
\* in that order, ascend in that comparison, and the directory of test_hash_tree
\* comes out as data, order, order.txt, order_dir.dir, order_dir.txt, order_dir.
C5_EntrySortOrder ==
    sorted.done =>
        /\ \A i, j \in 1..Len(sorted.files) :
              (/\ sorted.files[i].name # sorted.files[j].name
               /\ PlainName(sorted.files[i].name) /\ PlainName(sorted.files[j].name)) =>
                  /\ entry_sort(sorted.files[i], sorted.files[j]) = "Less"
                        <=> LexLess(SortKey(sorted.files[i]), SortKey(sorted.files[j]))
                  /\ entry_sort(sorted.files[i], sorted.files[j]) = "Greater"
                        <=> LexLess(SortKey(sorted.files[j]), SortKey(sorted.files[i]))
                  /\ entry_sort(sorted.files[i], sorted.files[j]) # "Equal"
        /\ \A i, j \in 1..Len(sorted.files) :
              i < j => LexLess(SortKey(sorted.files[i]), SortKey(sorted.files[j]))
        /\ {listing[i].name : i \in 1..Len(listing)} \ {GIT_PATH}
              = {TestOrder[i] : i \in 1..Len(TestOrder)} =>
              [i \in 1..Len(sorted.files) |-> sorted.files[i].name] = TestOrder

\* The directory of test_hash_tree, listed with order_dir first and data last,
\* was sorted.
C5_Witness ==
    /\ sorted.done
    /\ Len(listing) = 7
    /\ listing[1].name = N_order_dir
    /\ listing[7].name = N_data
    /\ [i \in 1..Len(sorted.files) |-> sorted.files[i].name] = TestOrder

(***************************************************************************)
(* Claims about the tree writer.                                           *)
(***************************************************************************)
\* A directory whose entries, .git left out, are all directories that are
\* empty or hold only such directories.
RECURSIVE EmptyLike(_)
EmptyLike(node) ==
    /\ wt[node].kind = "dir"
    /\ \A c \in ReadDir(node) : c.name # GIT_PATH => EmptyLike(c.node)

\* No TreeItem of mode Tree appended for a directory names an entry of it
\* that is EmptyLike.
NoEmptyItem(dir, items) ==
    \A j \in 1..Len(items) :
        items[j].mode = "Tree" => ~EmptyLike(ChildNode(dir, items[j].file_name))

\* The raw hash of the Tree object with an empty body.
EmptyTreeRaw == HexDecode(Sha1Hex(Header("Tree", 0)))

\* A stored Tree object has a body, and no HASH_RAW_LEN bytes of the body are
\* the hash of the empty Tree object.
SoundTree(path, content) ==
    The({ (o.err = "" /\ o.object_type = "Tree") =>
              /\ o.size > 0
              /\ o.reader.data # <<>>
              /\ \A i \in 1..(Len(o.reader.data) - HASH_RAW_LEN + 1) :
                    SubSeq(o.reader.data, i, i + HASH_RAW_LEN - 1) # EmptyTreeRaw
        : o \in {read_and_decode_object_file(path, content)} })

\* C11: hash_tree on a directory whose entries, the control directory left out,
\* are all directories that are empty or hold only empty directories returns
\* None and writes no object; such a directory is never an entry of the tree of
\* its parent; no Tree object written has an empty body or refers to the empty
\* tree.
C11_EmptySubtreesElided ==
    /\ (tret.done /\ EmptyLike(RootNode)) =>
            tret.err = "" /\ ~tret.some /\ files = files0 /\ dirs = dirs0
    /\ NoEmptyItem(RootNode, tret.items)
    /\ \A i \in 1..Len(stack) : NoEmptyItem(stack[i].dir, stack[i].items)
    /\ \A path \in DOMAIN files : SoundTree(path, files[path])

\* A persisting hash_tree returned a tree of the root, whose directory "a"
\* holds an empty directory and nothing else, beside .git and a file.
C11_Witness ==
    /\ tret.done /\ tret.some /\ tcall.write_files
    /\ wt[1].kind = "dir" /\ wt[3].kind = "dir" /\ wt[4].kind = "none"
    /\ wt[GitNode].kind = "dir"
    /\ wt[2].kind = "file"
    /\ Len(tret.items) = 1

\* C12: hash_tree fails with ERR_SYMLINK whenever a directory it lists holds a
\* symbolic link, whatever the link points to, and neither enters nor hashes
\* the target.  Stated of the root, which every call lists first, when no
\* other entry of it makes the listing fail.
C12_SymlinkRejected ==
    (/\ tret.done
     /\ \E c \in ReadDir(RootNode) : wt[c.node].kind = "link"
     /\ \A c \in ReadDir(RootNode) : wt[c.node].kind # "fifo") =>
        /\ tret.err = ERR_SYMLINK
        /\ files = files0
        /\ dirs = dirs0

\* C15: hash_tree with write_files false, and every hash_object and hash_blob it
\* calls, leaves the object directories, the object files and the temp file as
\* they were when it was called, and returns what hash_tree with write_files
\* true returns on the same directory: the same failure or success, the same
\* hash.
C15_DryRunWritesNothing ==
    /\ (tcall.n > 0 /\ ~tcall.write_files) =>
            files = files0 /\ dirs = dirs0 /\ temp = tcall.temp0
    /\ (tret.done /\ tmemo.set /\ tmemo.write_files # tcall.write_files) =>
            /\ (tret.err = "") = (tmemo.ret.err = "")
            /\ tret.err = "" => tret.some = tmemo.ret.some /\ tret.hash = tmemo.ret.hash

\* A tree of two entries was written, and the same directory hashed again
\* without writing.
C15_Witness ==
    /\ tret.done /\ tret.some /\ ~tcall.write_files
    /\ tmemo.set /\ tmemo.write_files
    /\ Len(tret.items) = 2
    /\ files # <<>>

\* What the iterator yields for a TreeItem the writer appended.
YieldedAs(res, item) ==
    /\ res.kind = "item"
    /\ res.mode = ModeNumber(item.mode)
    /\ Utf8Bytes(res.file_name) = item.file_name
    /\ res.hash = item.hash

\* C16: the object a persisting hash_tree returned the hash of decodes with type
\* Tree, and the TreeObjectIterator over it yields, without an error, the
\* TreeItems the writer appended, in the writer's order, each with the writer's
\* mode, the raw bytes of the name and the hash of the child, and then ends.
C16_TreeRoundTrip ==
    (tret.done /\ tret.some /\ tcall.write_files /\ obj.done) =>
        /\ obj.err = ""
        /\ obj.object_type = "Tree"
        /\ \A i \in 1..Len(yielded) :
              IF i <= Len(tret.items) THEN YieldedAs(yielded[i], tret.items[i])
              ELSE yielded[i].kind = "end"

\* The same, for the directories that have no entry named by a byte above 0x7F.
C16_TreeRoundTripAscii ==
    wt[2].kind = "none" => C16_TreeRoundTrip

\* C19: when a persisting hash_tree fails, the object directories and the
\* object files are those of before the call; only the temp file may remain.
C19_FailedWriteLeavesNothing ==
    (tret.done /\ tret.err # "" /\ tcall.write_files) =>
        files = files0 /\ dirs = dirs0

\* C20: hash_tree never recurses through a symbolic link, so that a link to an
\* ancestor directory makes no cycle: no hash_tree call in progress is on a
\* path that holds a symbolic link.
C20_RecursionFollowsNoLink ==
    \A i \in 1..Len(stack) : stack[i].links = 0

(***************************************************************************)
(* Claims about the store under every writer.                              *)
(***************************************************************************)
\* C17: no step of a hash_object call, which is how hash_blob, hash_tree and
\* hash_commit write, removes an object file or changes what an object file
\* decodes to (its type, its size, its body); the files a step adds are at
\* the path made of the hash the call returns.
C17_WriteOnce ==
    [][/\ DOMAIN files \subseteq DOMAIN files'
       /\ \A path \in DOMAIN files :
             Decoded(path, files'[path]) = Decoded(path, files[path])
       /\ \A path \in (DOMAIN files') \ (DOMAIN files) :
             ret'.kind = "ok" /\ path = get_object_path_by_hash(ret'.hash)]_vars

\* The same of the steps of hash_tree, which returns the hashes in TreeItems.
C17_WriteOnceTree ==
    [][/\ DOMAIN files \subseteq DOMAIN files'
       /\ \A path \in DOMAIN files :
             Decoded(path, files'[path]) = Decoded(path, files[path])]_vars

\* A second persisting call has added an object beside the one stored before.
C17_Witness ==
    /\ pc = "done" /\ ret.kind = "ok" /\ call.write_file
    /\ DOMAIN files0 # {}
    /\ DOMAIN files # DOMAIN files0

(***************************************************************************)
(* Claims about hash_commit.                                               *)
(***************************************************************************)
\* The objects stored before the call whose hash starts with an identifier.
MatchingBefore(object) == {path \in DOMAIN files0 : IsPrefix(object, HashOf(path))}

TypeBefore(path) == read_and_decode_object_file(path, files0[path]).object_type

\* The identifier, of a valid length, is a prefix of the hash of exactly one
\* object stored before the call, and that object has the type.
ResolvesTo(object, path, object_type) ==
    /\ LengthValid(object)
    /\ MatchingBefore(object) = {path}
    /\ TypeBefore(path) = object_type

\* C13: when the tree identifier is a unique prefix of the hash T of a stored
\* Tree and the parent identifier a unique prefix of the hash P of a stored
\* Commit, hash_commit succeeds, the body it hashes holds T and P in full, and
\* the hash it returns is the one hash_commit returns for T and P themselves.
C13_CommitCanonical ==
    (commit.done /\ commit.parent.some) =>
        \A tp \in DOMAIN files0, pp \in DOMAIN files0 :
            (ResolvesTo(commit.tree, tp, "Tree") /\ ResolvesTo(commit.parent.hash, pp, "Commit")) =>
                /\ commit.err = ""
                /\ commit.data = CommitData(HashOf(tp), STR_PARENT \o HexChars(HashOf(pp)),
                                            commit.message, COMMIT_AUTHOR, COMMIT_EMAIL,
                                            TestTimestamp, COMMIT_TIMEZONE)
                /\ \A te \in ReadDirOrders(HashOf(tp)), pe \in ReadDirOrders(HashOf(pp)) :
                      hash_commit(Disk, HashOf(tp), SomeParent(HashOf(pp)), commit.message,
                                  COMMIT_AUTHOR, COMMIT_EMAIL, TestTimestamp, COMMIT_TIMEZONE,
                                  commit.write_file, te, pe).hash = commit.hash

\* hash_commit was called on the first 20 digits of a Tree's and of a Commit's
\* hash, as test_hash_commit does, and wrote the commit.
C13_Witness ==
    /\ commit.done /\ commit.err = "" /\ commit.write_file
    /\ Len(commit.tree) = 20
    /\ commit.parent.some /\ Len(commit.parent.hash) = 20
    /\ Cardinality(DOMAIN files0) = MaxStored

\* C14: hash_commit fails with ERR_WRONG_TYPE when the tree identifier resolves
\* to an object that is not a Tree, and when it resolves to a Tree and the
\* parent given resolves to an object that is not a Commit; whenever
\* hash_commit fails, the object files and directories are those of before.
C14_CommitTypeChecked ==
    commit.done =>
        /\ \A tp \in DOMAIN files0 :
              \/ /\ ResolvesTo(commit.tree, tp, TypeBefore(tp))
                 /\ TypeBefore(tp) # "Tree"
              \/ /\ ResolvesTo(commit.tree, tp, "Tree")
                 /\ commit.parent.some
                 /\ \E pp \in DOMAIN files0 :
                       /\ ResolvesTo(commit.parent.hash, pp, TypeBefore(pp))
                       /\ TypeBefore(pp) # "Commit"
              => commit.err = ERR_WRONG_TYPE
        /\ commit.err # "" => files = files0 /\ dirs = dirs0

\* A persisting hash_commit was refused for a parent that is a Tree.
C14_Witness ==
    /\ commit.done /\ commit.err = ERR_WRONG_TYPE /\ commit.write_file
    /\ commit.parent.some
    /\ \E tp \in DOMAIN files0, pp \in DOMAIN files0 :
          /\ ResolvesTo(commit.tree, tp, "Tree")
          /\ ResolvesTo(commit.parent.hash, pp, "Tree")


(***************************************************************************)
(* Claims about the locator in a store other programs write to.            *)
(***************************************************************************)
\* The files of the prefix directory whose name starts with the searched suffix.
StartingWith(object) ==
    {p \in DOMAIN files : /\ PathDir(p) = split_at(object, OBJECT_DIR_LEN)[1]
                          /\ starts_with(PathName(p), split_at(object, OBJECT_DIR_LEN)[2])}

\* C21: whenever find_object_file succeeds, the file name it returns has
\* exactly 38 characters, so that directory and file name spell a 40-digit
\* hash; and a file of the prefix directory whose name starts with the searched
\* suffix but is not of 38 characters is neither returned nor counted as a
\* match: the lookup gives what it gives without that file.
C21_LocatorCompleteHashOnly ==
    (found.done /\ LengthValid(query)) =>
        /\ found.err = "" =>
              /\ Len(PathName(found.file_path)) = HASH_ENCODED_LEN - OBJECT_DIR_LEN
              /\ Len(HashOf(found.file_path)) = HASH_ENCODED_LEN
        /\ \A p \in StartingWith(query) \cap ForeignFiles :
              /\ found.file_path # p
              /\ Cardinality(StartingWith(query) \ ForeignFiles) = 1 => found.err = ""
              /\ Cardinality(StartingWith(query) \ ForeignFiles) = 0 => found.err # ""

\* C21 where no other program writes to the store (SpecFind): every path
\* find_object_file returns spells a 40-digit hash.
C21_LocatorCompleteHashOwnStore ==
    (found.done /\ found.err = "") =>
        /\ Len(PathName(found.file_path)) = HASH_ENCODED_LEN - OBJECT_DIR_LEN
        /\ Len(HashOf(found.file_path)) = HASH_ENCODED_LEN

\* A lookup returned the path of a file whose name is not of 38 characters.
C21_ForeignReturned ==
    found.done /\ found.err = "" /\ found.file_path \in ForeignFiles

\* A lookup one object matches failed as ambiguous because of a foreign file.
C21_ForeignCounted ==
    /\ found.done /\ found.err = "Found multiple objects starting with"
    /\ Cardinality(StartingWith(query) \ ForeignFiles) = 1
    /\ StartingWith(query) \cap ForeignFiles # {}


(***************************************************************************)
(* Claims about the tree reader's calls after the end.                     *)
(***************************************************************************)
\* next() returned an error or the end of the sequence.
Finished(res) == res.kind \in {"err", "end"}

\* Every call after one that returned an error or the end returned the end.
C22_Fused ==
    \A i, j \in 1..Len(yielded) :
        (i < j /\ Finished(yielded[i])) => yielded[j].kind = "end"

\* A call after one that returned an error or the end finds no reader and
\* leaves the iterator as it is: no byte is read, nothing is counted.
C22_NoRead ==
    (yielded # <<>> /\ Finished(yielded[Len(yielded)]) /\ yielded' # yielded) =>
        /\ tree.reader = <<>>
        /\ tree' = tree
        /\ yielded' = Append(yielded, ResEnd)

\* C22: the tree iterator is single-pass and fused: once next() has returned an
\* error or the end of the sequence, every later call returns the end of the
\* sequence and reads no further byte of the stream; so one iteration yields at
\* most one error and never an entry after an error.
C22_TreeIteratorFused ==
    /\ [](/\ C22_Fused
          /\ Cardinality({i \in 1..Len(yielded) : yielded[i].kind = "err"}) <= 1
          /\ \A i, j \in 1..Len(yielded) :
                (i < j /\ yielded[i].kind = "err") => yielded[j].kind # "item")
    /\ [][C22_NoRead]_vars

\* An entry, then an error, then next() called twice more; and a stream that
\* still had bytes when the error was returned.
C22_Witness ==
    /\ Len(yielded) >= 4
    /\ yielded[1].kind = "item"
    /\ yielded[2].kind = "err"
    /\ yielded[3].kind = "end"
    /\ yielded[4].kind = "end"
    /\ SLen(obj.reader.data) > tree.bytes_read + 1


(***************************************************************************)
(* Claims about the comparator as an order.                                *)
(***************************************************************************)
\* Ordering::reverse.
Reverse(o) == CASE o = "Less" -> "Greater" [] o = "Greater" -> "Less" [] OTHER -> "Equal"

\* The byte entry_sort puts after a name that has ended.
Synthetic(e) == IF e.mode = "Tree" THEN SLASH ELSE NUL

\* The entries get_dir_entries_sorted may push: the short names and the names
\* of test_hash_tree, each with every mode it gives.
OrderEntries ==
    {[name |-> n, mode |-> ModeOf(k)] :
        n \in SortNames \cup {TestOrder[i] : i \in 1..Len(TestOrder)},
        k \in {"dir", "file", "exec"}}

\* entry_sort is antisymmetric, says Equal only of entries with the same name
\* and the same synthetic byte, and is transitive on distinct names.
StrictTotalOrder ==
    /\ \A a, b \in OrderEntries :
          /\ entry_sort(a, b) = Reverse(entry_sort(b, a))
          /\ entry_sort(a, b) = "Equal" => (a.name = b.name /\ Synthetic(a) = Synthetic(b))
          /\ a.name # b.name => entry_sort(a, b) \in {"Less", "Greater"}
    /\ \A a, b \in OrderEntries :
          (a.name # b.name /\ entry_sort(a, b) = "Less") =>
              \A c \in OrderEntries :
                  (c.name # a.name /\ c.name # b.name /\ entry_sort(b, c) = "Less") =>
                      entry_sort(a, c) = "Less"

\* The entries of a set in ascending order of name and synthetic byte.
RECURSIVE Ascending(_)
Ascending(S) ==
    IF S = {} THEN <<>>
    ELSE The({ <<e>> \o Ascending(S \ {e})
             : e \in {f \in S : \A g \in S \ {f} : LexLess(SortKey(f), SortKey(g))} })

\* The hash get_tree_item has for an entry: it is computed from the entry's
\* path alone, whatever the place of the entry in the listing.
EntryHash(name) == Sha1Hex(name)

\* tree_data of hash_tree for the sorted entries, and the hash of the Tree.
TreeData(sorted_files) ==
    Flat([i \in 1..Len(sorted_files) |->
            ItemBytes([mode |-> sorted_files[i].mode, file_name |-> sorted_files[i].name,
                       hash |-> EntryHash(sorted_files[i].name)])])

TreeHash(sorted_files) ==
    The({ Sha1Hex(SCat(Header("Tree", SLen(tree_data)), tree_data))
        : tree_data \in {TreeData(sorted_files)} })

\* Other orders in which read_dir may list the same entries: the listing
\* reversed, and turned by one place.
Relistings(l) ==
    {[i \in 1..Len(l) |-> l[Len(l) + 1 - i]],
     [i \in 1..Len(l) |-> l[(i % Len(l)) + 1]]}

\* C23: entry_sort is a strict total order on entries with pairwise distinct
\* names: antisymmetric, transitive, and Equal only for two entries with the
\* same name and the same synthetic byte; so what get_dir_entries_sorted
\* returns, the Tree body serialized from it and the Tree's hash are the same
\* in whatever order read_dir lists the entries of the directory.
C23_EntrySortStrictTotalOrder ==
    /\ StrictTotalOrder
    /\ (sorted.done /\ sorted.err = "") =>
          /\ sorted.files = Ascending({sorted.files[i] : i \in 1..Len(sorted.files)})
          /\ {sorted.files[i].name : i \in 1..Len(sorted.files)}
                = {listing[i].name : i \in 1..Len(listing)} \ {GIT_PATH}
          /\ \E tree_data \in {TreeData(sorted.files)}, hash \in {TreeHash(sorted.files)} :
                \A l \in Relistings(listing) :
                    \E other \in {get_dir_entries_sorted(l)} :
                        /\ other = sorted
                        /\ TreeData(other.files) = tree_data
                        /\ TreeHash(other.files) = hash

\* A directory listed before a file whose name is the directory's name and
\* one more byte below '/': the file is sorted first, by the synthetic byte.
C23_Witness ==
    /\ sorted.done /\ sorted.err = ""
    /\ Len(listing) = 2
    /\ listing[1].kind = "dir"
    /\ Len(listing[2].name) = Len(listing[1].name) + 1
    /\ starts_with(listing[2].name, listing[1].name)
    /\ sorted.files[1].name = listing[2].name
    /\ sorted.files[2].mode = "Tree"

\* C23 across two hash_tree calls on one working tree (SpecWrite), read_dir
\* listing every directory in any order at each call: the same items and hash.
C23_HashTreeOrderFree ==
    (tret.done /\ tmemo.set /\ tret.err = "" /\ tmemo.ret.err = "") =>
        /\ tret.some = tmemo.ret.some
        /\ tret.hash = tmemo.ret.hash
        /\ tret.items = tmemo.ret.items

====
